---- MODULE Spec2Model ----
(***************************************************************************)
(* Decentralised group access control over a hash DAG of signed            *)
(* operations: the seniority-ranking interpreter of                        *)
(* project-seniority-ranking-based.py.                                     *)
(*                                                                         *)
(* The state is the set of operations handed to interpret_ops, kept as     *)
(* the dictionary ops_by_hash (hash -> parsed op).  An action is one       *)
(* operation producer (create_op, add_op, remove_op, post_op) putting one  *)
(* more signed op into that set.  The interpreter itself is a pure         *)
(* function of the set and is modelled by operators over ops_by_hash.      *)
(* codec is one call of sign_msg followed by verify_msg: its arguments,     *)
(* the envelope and the verified dictionary.                               *)
(*                                                                         *)
(* A hash is a natural number: SHA-256 is modelled by an injective choice  *)
(* of a free number, so the order of two hashes is independent of the      *)
(* causal order of the ops, as it is for real digests.                     *)
(***************************************************************************)
EXTENDS Integers, Sequences, FiniteSets, TLC

\* The keys the producers sign with and name; the tests also use a fourth.
Keys == {"A", "B", "C"}
AllKeys == Keys \cup {"D"}
Messages == {"hi"}
\* Ops produced one by one from the empty set, and on top of a test input.
MaxOps == 3
MaxExtra == 0
NoKey == "-"
NoMsg == "-"

VARIABLES ops_by_hash, free, codec

vars == <<ops_by_hash, free, codec>>

----------------------------------------------------------------------------
(* Operation producers.  Every parsed op carries the same fields so that   *)
(* ops can be compared; a field an op kind does not have holds NoKey or    *)
(* NoMsg.  preds is the set of the listed predecessor hashes.              *)

create_op(signing_key) ==
    [type |-> "create", signed_by |-> signing_key, added_key |-> NoKey,
     removed_key |-> NoKey, message |-> NoMsg, preds |-> {}]

add_op(signing_key, added_key, preds) ==
    [type |-> "add", signed_by |-> signing_key, added_key |-> added_key,
     removed_key |-> NoKey, message |-> NoMsg, preds |-> preds]

remove_op(signing_key, removed_key, preds) ==
    [type |-> "remove", signed_by |-> signing_key, added_key |-> NoKey,
     removed_key |-> removed_key, message |-> NoMsg, preds |-> preds]

post_op(signing_key, message, preds) ==
    [type |-> "post", signed_by |-> signing_key, added_key |-> NoKey,
     removed_key |-> NoKey, message |-> message, preds |-> preds]

----------------------------------------------------------------------------
(* The inputs of the unit tests (TestAccessControlList), as the list of    *)
(* their ops in the order the test builds them; preds name positions in    *)
(* that list.  alice = A, bob = B, carol = C, dave = D.                    *)

test_add_remove ==
    <<create_op("A"), add_op("A", "B", {1}), add_op("A", "C", {1}),
      remove_op("A", "B", {2, 3})>>

test_paper_figure_2 ==
    <<create_op("A"), add_op("A", "B", {1}), add_op("A", "C", {2}),
      add_op("B", "D", {2})>>

test_paper_figure_3 ==
    <<create_op("A"), add_op("A", "B", {1}), remove_op("A", "B", {2}),
      add_op("B", "C", {2})>>

test_paper_figure_4 ==
    <<create_op("A"), add_op("A", "B", {1}), add_op("B", "C", {2}),
      remove_op("A", "B", {3})>>

test_paper_figure_6 ==
    <<create_op("A"), add_op("A", "B", {1}), remove_op("A", "B", {2}),
      add_op("B", "C", {2}), remove_op("C", "A", {4})>>

test_mutual_removal ==
    <<create_op("A"), add_op("A", "B", {1}), remove_op("A", "B", {2}),
      remove_op("B", "A", {2})>>

test_mutual_removal_2 ==
    <<create_op("A"), add_op("A", "B", {1}), remove_op("B", "A", {2}),
      add_op("B", "A", {3}), remove_op("B", "A", {4}), remove_op("A", "B", {4})>>

test_post_then_remove ==
    <<create_op("A"), add_op("A", "B", {1}), post_op("B", "hi", {2}),
      remove_op("A", "B", {3})>>

test_remove_then_post ==
    <<create_op("A"), add_op("A", "B", {1}), remove_op("A", "B", {2}),
      post_op("B", "hi", {3})>>

test_remove_add_then_post ==
    <<create_op("A"), add_op("A", "B", {1}), remove_op("A", "B", {2}),
      add_op("A", "B", {3}), post_op("B", "hi", {4})>>

test_remove_post_then_add ==
    <<create_op("A"), add_op("A", "B", {1}), remove_op("A", "B", {2}),
      post_op("B", "hi", {3}), add_op("A", "B", {4})>>

test_concurrent_remove_post ==
    <<create_op("A"), add_op("A", "B", {1}), remove_op("A", "B", {2}),
      post_op("B", "hi", {2})>>

Tests ==
    {test_add_remove, test_paper_figure_2, test_paper_figure_3,
     test_paper_figure_4, test_paper_figure_6, test_mutual_removal,
     test_mutual_removal_2, test_post_then_remove, test_remove_then_post,
     test_remove_add_then_post, test_remove_post_then_add,
     test_concurrent_remove_post}

\* The list t with the keys k1 and k2 exchanged in every field.
swap_keys(t, k1, k2) ==
    LET sw(k) == IF k = k1 THEN k2 ELSE IF k = k2 THEN k1 ELSE k
    IN  [i \in DOMAIN t |->
            [t[i] EXCEPT !.signed_by = sw(@), !.added_key = sw(@), !.removed_key = sw(@)]]

\* Two keys added at depths 1 and 2 remove each other concurrently.
mutual_removal_juniors ==
    <<create_op("A"), add_op("A", "B", {1}), add_op("A", "C", {2}),
      remove_op("B", "C", {3}), remove_op("C", "B", {3})>>

\* B signs a remove that does not have the add of B in its causal past,
\* concurrently with C removing B.
unauthored_remove ==
    <<create_op("A"), add_op("A", "B", {1}), add_op("A", "C", {2}),
      remove_op("B", "C", {1}), remove_op("C", "B", {3})>>

\* test_mutual_removal_2 with one more op: A, removed by B and not yet
\* re-added, also signs a remove of B.
removal_while_removed ==
    Append(test_mutual_removal_2, remove_op("A", "B", {3}))

\* B is added and removed concurrently and posts after both.
add_remove_then_post ==
    <<create_op("A"), add_op("A", "B", {1}), remove_op("A", "B", {1}),
      post_op("B", "hi", {2, 3})>>

\* C is added twice by A, at depths 1 and 2, and A posts after both adds:
\* the post's predecessors lie at different depths.
merge_of_unequal_depths ==
    <<create_op("A"), add_op("A", "B", {1}), add_op("A", "C", {2}),
      add_op("A", "C", {1}), post_op("A", "hi", {3, 4})>>

\* The inputs the interpreter is given besides the sets built op by op.
Inputs ==
    Tests \cup
    {swap_keys(test_mutual_removal, "A", "B"), mutual_removal_juniors,
     swap_keys(mutual_removal_juniors, "B", "C"), unauthored_remove,
     removal_while_removed, add_remove_then_post}

\* The tests hold at most SeedLen ops; theirs are the even hashes, and an op
\* produced on top of a test takes an odd one, below, between or above.
SeedLen == Len(removal_while_removed)
Hashes == 1..(2 * SeedLen + 1)

\* hex_hash over a test's ops: the digests are unrelated to the order in
\* which the ops were built, here rising or falling with it.
Rising(n) == [i \in 1..n |-> 2 * i]
Falling(n) == [i \in 1..n |-> 2 * (n + 1 - i)]

\* ops_by_hash for the list of ops t hashed by hashing.
Hashed(t, hashing) ==
    [h \in {hashing[i] : i \in DOMAIN t} |->
        LET i == CHOOSE j \in DOMAIN t : hashing[j] = h
        IN  [t[i] EXCEPT !.preds = {hashing[j] : j \in t[i].preds}]]

----------------------------------------------------------------------------
(* Generic helpers.                                                        *)

Range(s) == {s[i] : i \in DOMAIN s}

InSeq(x, s) == \E i \in DOMAIN s : s[i] = x

IndexOf(x, s) == CHOOSE i \in DOMAIN s : s[i] = x /\ \A j \in 1..(i - 1) : s[j] # x

Max2(a, b) == IF a >= b THEN a ELSE b

\* Lexicographic order on pairs <<depth, hash>> (Python tuple comparison).
PairLess(p, q) == p[1] < q[1] \/ (p[1] = q[1] /\ p[2] < q[2])

\* Lexicographic order on <<seniority, hash>> with seniority a pair.
EntryLess(e, f) == PairLess(e[1], f[1]) \/ (e[1] = f[1] /\ e[2] < f[2])

\* The elements of S as the sequence in which a loop visits them, when the
\* container's iteration order is given by rank (smaller rank first).
RECURSIVE IterSeq(_, _)
IterSeq(S, rank) ==
    IF S = {} THEN <<>>
    ELSE LET m == CHOOSE x \in S : \A y \in S : rank[x] <= rank[y]
         IN  <<m>> \o IterSeq(S \ {m}, rank)

\* Nodes of the authority graph: an op hash, or the sentinel ('member', pk).
OpNode(h) == <<"op", h>>
MemberNode(pk) == <<"member", pk>>
IsMember(node) == node[1] = "member"

----------------------------------------------------------------------------
(* precedes(ops_by_hash, op1_hash, op2): op1 is a strict causal            *)
(* predecessor of op2 (reachable through preds).                           *)

RECURSIVE precedes(_, _, _)
precedes(o, op1_hash, op2_hash) ==
    LET predecessors == o[op2_hash].preds
    IN  \/ op1_hash \in predecessors
        \/ \E predecessor \in predecessors : precedes(o, op1_hash, predecessor)

concurrent(o, h1, h2) ==
    h1 # h2 /\ ~precedes(o, h1, h2) /\ ~precedes(o, h2, h1)

----------------------------------------------------------------------------
(* An iteration order: the order in which one run of the interpreter       *)
(* visits the entries of its dictionaries and sets.  h ranks op hashes,    *)
(* k ranks public keys.                                                    *)

KeyIndex == [x \in AllKeys |-> IF x = "A" THEN 1 ELSE IF x = "B" THEN 2
                               ELSE IF x = "C" THEN 3 ELSE 4]

DefaultOrder == [h |-> [x \in Hashes |-> x], k |-> KeyIndex]

\* Iteration orders a run can meet: every rotation of the default order
\* and of its mirror image.
OrderModulus == Cardinality(Hashes)
KeyModulus == Cardinality(AllKeys) + 1
Orders ==
    {[h |-> [x \in Hashes |-> (s * x + r) % OrderModulus],
      k |-> [x \in AllKeys |-> (s * KeyIndex[x] + r) % KeyModulus]] :
        r \in 0..(OrderModulus - 1), s \in {1, OrderModulus - 1}}

----------------------------------------------------------------------------
(* check_graph: the depth-first walk from a head towards the create op.    *)
(* st = [added, depth, failed]: added is the set of (public key, hash of   *)
(* the op that added it), depth maps the visited hashes to their depth,    *)
(* failed records that the walk fell through to the last else branch,      *)
(* which returns None and makes the caller's unpacking raise.              *)
(* The test of lines 160-161 builds an Exception without raising it, so    *)
(* it changes nothing.                                                     *)

EmptyWalk == [added |-> {}, depth |-> [x \in {} |-> 0], failed |-> FALSE]

RECURSIVE check_graph(_, _, _, _)
RECURSIVE check_preds(_, _, _, _, _)

\* The loop over the predecessors keeping the depth of the predecessor
\* visited last instead of the greatest one.
check_preds_last_visited(o, predseq, st, maxDepth, ord) ==
    IF predseq = <<>> \/ st.failed THEN [st |-> st, maxDepth |-> maxDepth]
    ELSE LET predecessor_hash == Head(predseq)
             st2 == check_graph(o, predecessor_hash, st, ord)
             d == IF predecessor_hash \in DOMAIN st2.depth
                  THEN st2.depth[predecessor_hash] ELSE 0
         IN  check_preds(o, Tail(predseq), st2, d, ord)

check_preds(o, predseq, st, maxDepth, ord) ==
    IF predseq = <<>> \/ st.failed THEN [st |-> st, maxDepth |-> maxDepth]
    ELSE LET predecessor_hash == Head(predseq)
             st2 == check_graph(o, predecessor_hash, st, ord)
             d == IF predecessor_hash \in DOMAIN st2.depth
                  THEN st2.depth[predecessor_hash] ELSE 0
         IN  check_preds(o, Tail(predseq), st2, Max2(maxDepth, d), ord)

check_graph(o, op_hash, st, ord) ==
    LET op == o[op_hash]
    IN  IF st.failed \/ op_hash \in DOMAIN st.depth THEN st
        ELSE IF DOMAIN st.depth = {} /\ st.added = {} /\ op.type = "create"
        THEN [added |-> {<<op.signed_by, op_hash>>},
              depth |-> (op_hash :> 0), failed |-> FALSE]
        ELSE IF op.type \in {"add", "remove", "post"} /\ op.preds # {}
        THEN LET r == check_preds(o, IterSeq(op.preds, ord.h), st, 0, ord)
                 added2 == IF op.type = "add"
                           THEN r.st.added \cup {<<op.added_key, op_hash>>}
                           ELSE r.st.added
             IN  IF r.st.failed THEN r.st
                 ELSE [added |-> added2,
                       depth |-> (op_hash :> (r.maxDepth + 1)) @@ r.st.depth,
                       failed |-> FALSE]
        ELSE [st EXCEPT !.failed = TRUE]

RECURSIVE check_heads(_, _, _, _)
check_heads(o, headseq, st, ord) ==
    IF headseq = <<>> THEN st
    ELSE check_heads(o, Tail(headseq), check_graph(o, Head(headseq), st, ord), ord)

successors(o, h) == {g \in DOMAIN o : h \in o[g].preds}

heads(o) == {h \in DOMAIN o : successors(o, h) = {}}

graph_walk(o, ord) == check_heads(o, IterSeq(heads(o), ord.h), EmptyWalk, ord)

\* The least element of a non-empty set of <<depth, hash>> pairs.
MinPair(S) == CHOOSE p \in S : \A q \in S : p = q \/ PairLess(p, q)

\* compute_seniority taking the latest add of a key instead of the first.
compute_seniority_last_add(o, ord) ==
    LET w == graph_walk(o, ord)
        pks == {a[1] : a \in w.added}
        pairs(pk) == {<<w.depth[a[2]], a[2]>> : a \in {b \in w.added : b[1] = pk}}
    IN  [pk \in pks |->
            CHOOSE p \in pairs(pk) : \A q \in pairs(pk) : p = q \/ PairLess(q, p)]

(* compute_seniority: public key -> (depth, hash) of its most senior add.  *)
compute_seniority(o, ord) ==
    LET w == graph_walk(o, ord)
        pks == {a[1] : a \in w.added}
    IN  [pk \in pks |->
            MinPair({<<w.depth[a[2]], a[2]>> : a \in {b \in w.added : b[1] = pk}})]

----------------------------------------------------------------------------
(* authority_graph: the set of edges <<n1, n2>>.                           *)

\* p_k of lines 193-199: the key whose authorisation the op affects.
affected_key(op) ==
    IF op.type = "create" THEN op.signed_by
    ELSE IF op.type = "add" THEN op.added_key
    ELSE op.removed_key

\* authority_graph in which a remove challenges only the ops that follow it.
authority_graph_no_concurrent(o) ==
    LET acl == {h \in DOMAIN o : o[h].type # "post"}
    IN  {<<OpNode(hash1), MemberNode(affected_key(o[hash1]))>> : hash1 \in acl}
        \cup
        {<<OpNode(e[1]), OpNode(e[2])>> : e \in
            {e \in acl \X DOMAIN o :
                /\ o[e[2]].signed_by = affected_key(o[e[1]])
                /\ precedes(o, e[1], e[2])}}

\* authority_graph in which a remove challenges every op of the removed key.
authority_graph_all_ops(o) ==
    LET acl == {h \in DOMAIN o : o[h].type # "post"}
    IN  {<<OpNode(hash1), MemberNode(affected_key(o[hash1]))>> : hash1 \in acl}
        \cup
        {<<OpNode(e[1]), OpNode(e[2])>> : e \in
            {e \in acl \X DOMAIN o :
                /\ o[e[2]].signed_by = affected_key(o[e[1]])
                /\ \/ /\ o[e[1]].type \in {"create", "add"}
                      /\ precedes(o, e[1], e[2])
                   \/ /\ o[e[1]].type = "remove"
                      /\ e[1] # e[2]}}

\* authority_graph without the edges from removes to member sentinels.
authority_graph_adds_reach_members(o) ==
    LET acl == {h \in DOMAIN o : o[h].type # "post"}
    IN  {<<OpNode(hash1), MemberNode(affected_key(o[hash1]))>> :
            hash1 \in {h \in acl : o[h].type # "remove"}}
        \cup
        {<<OpNode(e[1]), OpNode(e[2])>> : e \in
            {e \in acl \X DOMAIN o :
                /\ o[e[2]].signed_by = affected_key(o[e[1]])
                /\ \/ /\ o[e[1]].type \in {"create", "add"}
                      /\ precedes(o, e[1], e[2])
                   \/ /\ o[e[1]].type = "remove"
                      /\ ~precedes(o, e[2], e[1])}}

\* authority_graph with an add authorising the concurrent ops of the added
\* key as well.
authority_graph_adds_reach_concurrent(o) ==
    LET acl == {h \in DOMAIN o : o[h].type # "post"}
    IN  {<<OpNode(hash1), MemberNode(affected_key(o[hash1]))>> : hash1 \in acl}
        \cup
        {<<OpNode(e[1]), OpNode(e[2])>> : e \in
            {e \in acl \X DOMAIN o :
                /\ o[e[2]].signed_by = affected_key(o[e[1]])
                /\ e[1] # e[2]
                /\ ~precedes(o, e[2], e[1])}}

\* authority_graph in which a post op, too, has an edge to the member
\* sentinel of its signer.
authority_graph_posts_reach_members(o) ==
    LET acl == {h \in DOMAIN o : o[h].type # "post"}
    IN  {<<OpNode(hash1), MemberNode(affected_key(o[hash1]))>> : hash1 \in acl}
        \cup
        {<<OpNode(hash1), MemberNode(o[hash1].signed_by)>> : hash1 \in DOMAIN o \ acl}
        \cup
        {<<OpNode(e[1]), OpNode(e[2])>> : e \in
            {e \in acl \X DOMAIN o :
                /\ o[e[2]].signed_by = affected_key(o[e[1]])
                /\ \/ /\ o[e[1]].type \in {"create", "add"}
                      /\ precedes(o, e[1], e[2])
                   \/ /\ o[e[1]].type = "remove"
                      /\ ~precedes(o, e[2], e[1])}}

authority_graph(o) ==
    LET acl == {h \in DOMAIN o : o[h].type # "post"}
    IN  {<<OpNode(hash1), MemberNode(affected_key(o[hash1]))>> : hash1 \in acl}
        \cup
        {<<OpNode(e[1]), OpNode(e[2])>> : e \in
            {e \in acl \X DOMAIN o :
                /\ o[e[2]].signed_by = affected_key(o[e[1]])
                /\ \/ /\ o[e[1]].type \in {"create", "add"}
                      /\ precedes(o, e[1], e[2])
                   \/ /\ o[e[1]].type = "remove"
                      /\ ~precedes(o, e[2], e[1])}}

----------------------------------------------------------------------------
(* find_cycles: walk the edges backwards from node; a node met again       *)
(* closes a cycle, returned as the part of the path from that node on.     *)
(* The result list is modelled as the set of its cycle lists: uniquify     *)
(* is the only reader and discards order and repetition.                   *)

RECURSIVE find_cycles(_, _, _)
find_cycles(G, node, path) ==
    IF InSeq(node, path)
    THEN {SubSeq(path, IndexOf(node, path), Len(path))}
    ELSE LET preds == {e[1] : e \in {f \in G : f[2] = node}}
             path2 == Append(path, node)
         IN  UNION {find_cycles(G, n, path2) : n \in preds}

\* The calls find_cycles makes, itself included, as <<node, path>> pairs.
RECURSIVE find_cycles_calls(_, _, _)
find_cycles_calls(G, node, path) ==
    {<<node, path>>} \cup
    IF InSeq(node, path) THEN {}
    ELSE LET preds == {e[1] : e \in {f \in G : f[2] = node}}
             path2 == Append(path, node)
         IN  UNION {find_cycles_calls(G, n, path2) : n \in preds}

\* uniquify losing the cycles through a single op.
uniquify_longer_cycles(lst_of_lsts) ==
    {Range(lst) : lst \in {l \in lst_of_lsts : Cardinality(Range(l)) > 1}}

uniquify(lst_of_lsts) == {Range(lst) : lst \in lst_of_lsts}

\* subject(op): the key that signed the op.
subject(op) == op.signed_by

member_nodes(G) == {e[2] : e \in {f \in G : IsMember(f[2])}}

message_nodes(o) == {OpNode(h) : h \in {g \in DOMAIN o : o[g].type = "post"}}

cycles_of(o) ==
    LET auth_graph == authority_graph(o)
    IN  uniquify(UNION {find_cycles(auth_graph, node, <<>>) : node \in member_nodes(auth_graph)})

\* seniority[subject(...)] raises KeyError for a signer without an entry.
drop_raises(o, seniority) ==
    \E cycle \in cycles_of(o) : \E n \in cycle : subject(o[n[2]]) \notin DOMAIN seniority

\* The greatest element of a non-empty set of <<seniority, hash>> entries.
MaxEntry(S) == CHOOSE e \in S : \A f \in S : e = f \/ EntryLess(f, e)

\* drop taking per cycle the greatest hash, whatever the seniority.
drop_entries_by_hash(o, seniority) ==
    {CHOOSE e \in {<<seniority[subject(o[n[2]])], n[2]>> : n \in cycle} :
        \A n \in cycle : n[2] <= e[2] : cycle \in cycles_of(o)}

\* drop taking per cycle the least entry: the most senior signer loses.
drop_entries_least(o, seniority) ==
    {CHOOSE e \in {<<seniority[subject(o[n[2]])], n[2]>> : n \in cycle} :
        \A n \in cycle :
            LET f == <<seniority[subject(o[n[2]])], n[2]>>
            IN  e = f \/ EntryLess(e, f) : cycle \in cycles_of(o)}

\* drop (lines 105-106): per cycle the entry (seniority of the signer, hash)
\* that is greatest.
drop_entries(o, seniority) ==
    {MaxEntry({<<seniority[subject(o[n[2]])], n[2]>> : n \in cycle}) : cycle \in cycles_of(o)}

\* auth_graph2 keeping every edge.
pruned_graph_unpruned(o, drop) == authority_graph(o)

\* auth_graph2 losing only the edges that start at a dropped op.
pruned_graph_sources_only(o, drop) ==
    {e \in authority_graph(o) : ~\E t \in drop : OpNode(t[2]) = e[1]}

\* auth_graph2 (line 108): the edges neither of whose ends is dropped.
pruned_graph(o, drop) ==
    {e \in authority_graph(o) :
        /\ ~\E t \in drop : OpNode(t[2]) = e[1]
        /\ ~\E t \in drop : OpNode(t[2]) = e[2]}

----------------------------------------------------------------------------
(* compute_validity: memoised recursion over the incoming edges.           *)
(* vs = [valid, overflow]: valid is the memo (node -> bool); overflow      *)
(* records that the recursion re-entered a node it is still evaluating,    *)
(* which in the code recurses without end (RecursionError).                *)

EmptyValid == [valid |-> [x \in {} |-> TRUE], overflow |-> FALSE]

RECURSIVE compute_validity(_, _, _, _, _, _)
RECURSIVE validity_prevs(_, _, _, _, _, _)

\* compute_validity keeping only the incoming edge visited last.
compute_validity_last_prev(o, G, node, vs, visiting, ord) ==
    IF vs.overflow \/ node \in DOMAIN vs.valid THEN vs
    ELSE IF node \in visiting THEN [vs EXCEPT !.overflow = TRUE]
    ELSE IF ~IsMember(node) /\ o[node[2]].type = "create"
    THEN [vs EXCEPT !.valid = (node :> TRUE) @@ vs.valid]
    ELSE LET op_prevs == {e[1] : e \in {f \in G : f[2] = node}}
             rank == [n \in op_prevs |-> ord.h[n[2]]]
             prevseq == IterSeq(op_prevs, rank)
             vs2 == validity_prevs(o, G, prevseq, vs, visiting \cup {node}, ord)
             kept == IF prevseq = <<>> THEN {} ELSE {prevseq[Len(prevseq)]}
             incoming == {prev \in kept : vs2.valid[prev]}
             tmp_bool ==
                 \E add_node \in incoming :
                    /\ o[add_node[2]].type \in {"add", "create"}
                    /\ ~\E rem_node \in incoming :
                           /\ o[rem_node[2]].type = "remove"
                           /\ precedes(o, add_node[2], rem_node[2])
         IN  IF vs2.overflow THEN vs2
             ELSE [vs2 EXCEPT !.valid = (node :> tmp_bool) @@ vs2.valid]

\* compute_validity counting every incoming edge, valid or not.
compute_validity_all_incoming(o, G, node, vs, visiting, ord) ==
    IF vs.overflow \/ node \in DOMAIN vs.valid THEN vs
    ELSE IF node \in visiting THEN [vs EXCEPT !.overflow = TRUE]
    ELSE IF ~IsMember(node) /\ o[node[2]].type = "create"
    THEN [vs EXCEPT !.valid = (node :> TRUE) @@ vs.valid]
    ELSE LET op_prevs == {e[1] : e \in {f \in G : f[2] = node}}
             rank == [n \in op_prevs |-> ord.h[n[2]]]
             vs2 == validity_prevs(o, G, IterSeq(op_prevs, rank), vs,
                                   visiting \cup {node}, ord)
             incoming == op_prevs
             tmp_bool ==
                 \E add_node \in incoming :
                    /\ o[add_node[2]].type \in {"add", "create"}
                    /\ ~\E rem_node \in incoming :
                           /\ o[rem_node[2]].type = "remove"
                           /\ precedes(o, add_node[2], rem_node[2])
         IN  IF vs2.overflow THEN vs2
             ELSE [vs2 EXCEPT !.valid = (node :> tmp_bool) @@ vs2.valid]

\* compute_validity with every valid remove overriding every add.
compute_validity_remove_overrides_all(o, G, node, vs, visiting, ord) ==
    IF vs.overflow \/ node \in DOMAIN vs.valid THEN vs
    ELSE IF node \in visiting THEN [vs EXCEPT !.overflow = TRUE]
    ELSE IF ~IsMember(node) /\ o[node[2]].type = "create"
    THEN [vs EXCEPT !.valid = (node :> TRUE) @@ vs.valid]
    ELSE LET op_prevs == {e[1] : e \in {f \in G : f[2] = node}}
             rank == [n \in op_prevs |-> ord.h[n[2]]]
             vs2 == validity_prevs(o, G, IterSeq(op_prevs, rank), vs,
                                   visiting \cup {node}, ord)
             incoming == {prev \in op_prevs : vs2.valid[prev]}
             tmp_bool ==
                 \E add_node \in incoming :
                    /\ o[add_node[2]].type \in {"add", "create"}
                    /\ ~\E rem_node \in incoming :
                           o[rem_node[2]].type = "remove"
         IN  IF vs2.overflow THEN vs2
             ELSE [vs2 EXCEPT !.valid = (node :> tmp_bool) @@ vs2.valid]

\* compute_validity with an incoming op of any type authorising.
compute_validity_any_type(o, G, node, vs, visiting, ord) ==
    IF vs.overflow \/ node \in DOMAIN vs.valid THEN vs
    ELSE IF node \in visiting THEN [vs EXCEPT !.overflow = TRUE]
    ELSE IF ~IsMember(node) /\ o[node[2]].type = "create"
    THEN [vs EXCEPT !.valid = (node :> TRUE) @@ vs.valid]
    ELSE LET op_prevs == {e[1] : e \in {f \in G : f[2] = node}}
             rank == [n \in op_prevs |-> ord.h[n[2]]]
             vs2 == validity_prevs(o, G, IterSeq(op_prevs, rank), vs,
                                   visiting \cup {node}, ord)
             incoming == {prev \in op_prevs : vs2.valid[prev]}
             tmp_bool ==
                 \E add_node \in incoming :
                    ~\E rem_node \in incoming :
                        /\ o[rem_node[2]].type = "remove"
                        /\ precedes(o, add_node[2], rem_node[2])
         IN  IF vs2.overflow THEN vs2
             ELSE [vs2 EXCEPT !.valid = (node :> tmp_bool) @@ vs2.valid]

\* compute_validity with an incoming add overridden by the incoming
\* removes that precede it.
compute_validity_remove_before(o, G, node, vs, visiting, ord) ==
    IF vs.overflow \/ node \in DOMAIN vs.valid THEN vs
    ELSE IF node \in visiting THEN [vs EXCEPT !.overflow = TRUE]
    ELSE IF ~IsMember(node) /\ o[node[2]].type = "create"
    THEN [vs EXCEPT !.valid = (node :> TRUE) @@ vs.valid]
    ELSE LET op_prevs == {e[1] : e \in {f \in G : f[2] = node}}
             rank == [n \in op_prevs |-> ord.h[n[2]]]
             vs2 == validity_prevs(o, G, IterSeq(op_prevs, rank), vs,
                                   visiting \cup {node}, ord)
             incoming == {prev \in op_prevs : vs2.valid[prev]}
             tmp_bool ==
                 \E add_node \in incoming :
                    /\ o[add_node[2]].type \in {"add", "create"}
                    /\ ~\E rem_node \in incoming :
                           /\ o[rem_node[2]].type = "remove"
                           /\ precedes(o, rem_node[2], add_node[2])
         IN  IF vs2.overflow THEN vs2
             ELSE [vs2 EXCEPT !.valid = (node :> tmp_bool) @@ vs2.valid]

\* compute_validity with an incoming add overridden by every incoming
\* remove that does not precede it: the removes after it and beside it.
compute_validity_concurrent_overrides(o, G, node, vs, visiting, ord) ==
    IF vs.overflow \/ node \in DOMAIN vs.valid THEN vs
    ELSE IF node \in visiting THEN [vs EXCEPT !.overflow = TRUE]
    ELSE IF ~IsMember(node) /\ o[node[2]].type = "create"
    THEN [vs EXCEPT !.valid = (node :> TRUE) @@ vs.valid]
    ELSE LET op_prevs == {e[1] : e \in {f \in G : f[2] = node}}
             rank == [n \in op_prevs |-> ord.h[n[2]]]
             vs2 == validity_prevs(o, G, IterSeq(op_prevs, rank), vs,
                                   visiting \cup {node}, ord)
             incoming == {prev \in op_prevs : vs2.valid[prev]}
             tmp_bool ==
                 \E add_node \in incoming :
                    /\ o[add_node[2]].type \in {"add", "create"}
                    /\ ~\E rem_node \in incoming :
                           /\ o[rem_node[2]].type = "remove"
                           /\ ~precedes(o, rem_node[2], add_node[2])
         IN  IF vs2.overflow THEN vs2
             ELSE [vs2 EXCEPT !.valid = (node :> tmp_bool) @@ vs2.valid]

validity_prevs(o, G, prevseq, vs, visiting, ord) ==
    IF prevseq = <<>> \/ vs.overflow THEN vs
    ELSE validity_prevs(o, G, Tail(prevseq),
                        compute_validity(o, G, Head(prevseq), vs, visiting, ord),
                        visiting, ord)

compute_validity(o, G, node, vs, visiting, ord) ==
    IF vs.overflow \/ node \in DOMAIN vs.valid THEN vs
    ELSE IF node \in visiting THEN [vs EXCEPT !.overflow = TRUE]
    ELSE IF ~IsMember(node) /\ o[node[2]].type = "create"
    THEN [vs EXCEPT !.valid = (node :> TRUE) @@ vs.valid]
    ELSE LET op_prevs == {e[1] : e \in {f \in G : f[2] = node}}
             rank == [n \in op_prevs |-> ord.h[n[2]]]
             vs2 == validity_prevs(o, G, IterSeq(op_prevs, rank), vs,
                                   visiting \cup {node}, ord)
             incoming == {prev \in op_prevs : vs2.valid[prev]}
             tmp_bool ==
                 \E add_node \in incoming :
                    /\ o[add_node[2]].type \in {"add", "create"}
                    /\ ~\E rem_node \in incoming :
                           /\ o[rem_node[2]].type = "remove"
                           /\ precedes(o, add_node[2], rem_node[2])
         IN  IF vs2.overflow THEN vs2
             ELSE [vs2 EXCEPT !.valid = (node :> tmp_bool) @@ vs2.valid]

RECURSIVE validity_nodes(_, _, _, _, _)
validity_nodes(o, G, nodeseq, vs, ord) ==
    IF nodeseq = <<>> THEN vs
    ELSE validity_nodes(o, G, Tail(nodeseq),
                        compute_validity(o, G, Head(nodeseq), vs, {}, ord), ord)

----------------------------------------------------------------------------
(* compute_membership_and_messages and interpret_ops.  The result is       *)
(* [raised, members, valid_messages]; raised names the exception that      *)
(* ends the call ("none" when it returns).                                 *)

Failure(kind) == [raised |-> kind, members |-> {}, valid_messages |-> {}]

\* The validity memo after the loop of lines 112-113.
validity_map(o, ord) ==
    LET seniority == compute_seniority(o, ord)
        auth_graph2 == pruned_graph(o, drop_entries(o, seniority))
        mnodes == member_nodes(authority_graph(o))
        mrank == [n \in mnodes |-> ord.k[n[2]]]
        prank == [n \in message_nodes(o) |-> ord.h[n[2]]]
    IN  validity_nodes(o, auth_graph2,
                       IterSeq(mnodes, mrank) \o IterSeq(message_nodes(o), prank),
                       EmptyValid, ord)

\* compute_membership_and_messages returning the message of every post op.
compute_membership_and_messages_every_post(o, ord) ==
    IF graph_walk(o, ord).failed THEN Failure("TypeError")
    ELSE IF drop_raises(o, compute_seniority(o, ord)) THEN Failure("KeyError")
    ELSE LET vs == validity_map(o, ord)
         IN  IF vs.overflow THEN Failure("RecursionError")
             ELSE [raised |-> "none",
                   members |-> {n[2] : n \in {m \in member_nodes(authority_graph(o)) : vs.valid[m]}},
                   valid_messages |-> {o[n[2]].message : n \in message_nodes(o)}]

compute_membership_and_messages(o, ord) ==
    IF graph_walk(o, ord).failed THEN Failure("TypeError")
    ELSE IF drop_raises(o, compute_seniority(o, ord)) THEN Failure("KeyError")
    ELSE LET vs == validity_map(o, ord)
         IN  IF vs.overflow THEN Failure("RecursionError")
             ELSE [raised |-> "none",
                   members |-> {n[2] : n \in {m \in member_nodes(authority_graph(o)) : vs.valid[m]}},
                   valid_messages |-> {o[n[2]].message : n \in {m \in message_nodes(o) : vs.valid[m]}}]

\* structure_ok asking for at least one create op instead of exactly one.
structure_ok_some_create(o) ==
    /\ \A h \in DOMAIN o : o[h].type \in {"create", "add", "remove", "post"}
    /\ \A h \in DOMAIN o : o[h].type # "create" => o[h].preds # {}
    /\ \A h \in DOMAIN o : o[h].type # "create" => o[h].preds \subseteq DOMAIN o
    /\ Cardinality({h \in DOMAIN o : o[h].type = "create"}) >= 1

\* structure_ok without the test for an empty preds list.
structure_ok_preds_may_be_empty(o) ==
    /\ \A h \in DOMAIN o : o[h].type \in {"create", "add", "remove", "post"}
    /\ \A h \in DOMAIN o : o[h].type # "create" => o[h].preds \subseteq DOMAIN o
    /\ Cardinality({h \in DOMAIN o : o[h].type = "create"}) = 1

\* The checks of lines 63-87 that a parsed op set can fail in this model.
structure_ok(o) ==
    /\ \A h \in DOMAIN o : o[h].type \in {"create", "add", "remove", "post"}
    /\ \A h \in DOMAIN o : o[h].type # "create" => o[h].preds # {}
    /\ \A h \in DOMAIN o : o[h].type # "create" => o[h].preds \subseteq DOMAIN o
    /\ Cardinality({h \in DOMAIN o : o[h].type = "create"}) = 1

interpret_ops(o, ord) ==
    IF ~structure_ok(o) THEN Failure("Exception")
    ELSE compute_membership_and_messages(o, ord)

----------------------------------------------------------------------------
(* The envelope codec.  A message is a dictionary: a function from field   *)
(* names to Python values (a str, a list of str or a tuple of str).  The   *)
(* envelope is <<public key, signature, JSON text>>: signed_msg[0:32] is   *)
(* its first part and signed_msg[32:] the other two.  A key pair is named  *)
(* by the hex form of its public key.  The signature is ideal: it is the   *)
(* pair of the signing key and the signed text, and verifies under that    *)
(* key for that text only.                                                 *)

PyStr(s) == [py |-> "str", str |-> s, items |-> <<>>]
PyList(items) == [py |-> "list", str |-> "", items |-> items]
PyTuple(items) == [py |-> "tuple", str |-> "", items |-> items]

JsonString(s) == [json |-> "string", str |-> s, items |-> <<>>]
JsonArray(items) == [json |-> "array", str |-> "", items |-> items]

EmptyDict == [name \in {} |-> PyStr("")]

FieldNames == {"type", "added_key", "preds", "signed_by"}

\* The order in which the fields were put into the dictionary.
FieldRank == [name \in FieldNames |->
                 CHOOSE i \in 1..Cardinality(FieldNames) :
                     <<"type", "added_key", "preds", "signed_by">>[i] = name]

\* json.dumps of one value: a list and a tuple both become an array.
json_encode(value) ==
    IF value.py = "str" THEN JsonString(value.str) ELSE JsonArray(value.items)

\* json.loads of one value: an array becomes a list.
json_decode(value) ==
    IF value.json = "string" THEN PyStr(value.str) ELSE PyList(value.items)

\* json.dumps(message): the members <<name, value>> in dictionary order.
json_dumps(message) ==
    LET names == IterSeq(DOMAIN message, FieldRank)
    IN  [i \in DOMAIN names |-> <<names[i], json_encode(message[names[i]])>>]

\* json.loads(text): of members with the same name the last one counts.
json_loads(text) ==
    [name \in {text[i][1] : i \in DOMAIN text} |->
        LET i == CHOOSE j \in DOMAIN text :
                     /\ text[j][1] = name
                     /\ \A l \in DOMAIN text : l > j => text[l][1] # name
        IN  json_decode(text[i][2])]

\* signing_key.verify_key.encode(): the 32 bytes whose hex form names the key.
verify_key_encode(signing_key) == [hex |-> signing_key]

\* signing_key.sign(text): the 64-byte signature followed by the text.
sign(signing_key, text) == <<[key |-> signing_key, text |-> text], text>>

sign_msg(signing_key, message) ==
    LET public_key == verify_key_encode(signing_key)
        signed_msg == sign(signing_key, json_dumps(message))
    IN  <<public_key>> \o signed_msg

\* verify_msg keeping the verified dictionary as it is, without signed_by.
verify_msg_without_signer(signed_msg) ==
    LET public_key == signed_msg[1]
    IN  IF signed_msg[2] # [key |-> public_key.hex, text |-> signed_msg[3]]
        THEN [raised |-> "BadSignatureError", value |-> EmptyDict]
        ELSE [raised |-> "none", value |-> json_loads(signed_msg[3])]

\* verify_msg in which a signed_by field of the body replaces the prefix
\* key.
verify_msg_body_wins(signed_msg) ==
    LET public_key == signed_msg[1]
    IN  IF signed_msg[2] # [key |-> public_key.hex, text |-> signed_msg[3]]
        THEN [raised |-> "BadSignatureError", value |-> EmptyDict]
        ELSE LET verified == json_loads(signed_msg[3])
             IN  [raised |-> "none",
                  value |-> [name \in DOMAIN verified \cup {"signed_by"} |->
                                IF name \in DOMAIN verified THEN verified[name]
                                ELSE PyStr(public_key.hex)]]

\* public_key.verify raises BadSignatureError unless the signature is that
\* of the prefix key over the text; signed_by replaces a field of that name.
verify_msg(signed_msg) ==
    LET public_key == signed_msg[1]
    IN  IF signed_msg[2] # [key |-> public_key.hex, text |-> signed_msg[3]]
        THEN [raised |-> "BadSignatureError", value |-> EmptyDict]
        ELSE LET verified == json_loads(signed_msg[3])
             IN  [raised |-> "none",
                  value |-> [name \in DOMAIN verified \cup {"signed_by"} |->
                                IF name = "signed_by" THEN PyStr(public_key.hex)
                                ELSE verified[name]]]

\* No call of the codec under way.
Idle ==
    [at |-> "idle", signing_key |-> NoKey, message |-> EmptyDict,
     signed_msg |-> <<>>, verified |-> [raised |-> "none", value |-> EmptyDict]]

\* The values and the messages the codec is called with: among them the
\* body of an add op, bodies with a tuple for a list, and bodies that
\* carry a signed_by field of their own.
CodecValues ==
    {PyStr("add"), PyStr("B"), PyList(<<>>), PyList(<<"B">>), PyTuple(<<"B">>)}

Bodies == UNION {[names -> CodecValues] : names \in SUBSET FieldNames}

----------------------------------------------------------------------------
(* The power-level interpreter of project.py.  Its producers create_op,    *)
(* add_op, remove_op and post_op are those above; increase_pl_op is its    *)
(* own.  Its interpret_ops is interpret_ops_power_levels here (the name    *)
(* interpret_ops is taken by the seniority interpreter).  The dictionaries *)
(* successors and predecessors are read off the preds fields.  A list or   *)
(* set of hashes is visited in the order ord.h.                            *)

PowerLevels == [USER |-> 0, MODERATOR |-> 50, ADMINISTRATOR |-> 100]

Levels == {PowerLevels.USER, PowerLevels.MODERATOR, PowerLevels.ADMINISTRATOR}

increase_pl_op(signing_key, power_level, increased_key, preds) ==
    [type |-> "increase_pl", signed_by |-> signing_key, added_key |-> NoKey,
     removed_key |-> NoKey, message |-> NoMsg, preds |-> preds,
     power_level |-> power_level, increased_key |-> increased_key]

\* The tests of project.py (test_add_remove is the one above).
test_concurrent_remove_user ==
    <<create_op("A"), add_op("A", "B", {1}), add_op("A", "C", {2}),
      remove_op("A", "C", {2})>>

test_concurrent_remove_adder ==
    <<create_op("A"), add_op("A", "B", {1}), add_op("B", "C", {2}),
      remove_op("A", "B", {2})>>

test_valid_post_before_removal ==
    <<create_op("A"), add_op("A", "B", {1}), post_op("B", "hi", {2}),
      remove_op("A", "B", {2})>>

test_invalid_post_after_removal ==
    <<create_op("A"), add_op("A", "B", {1}), remove_op("A", "B", {2}),
      post_op("B", "hi", {3})>>

test_valid_post_after_removal_and_readding ==
    <<create_op("A"), add_op("A", "B", {1}), remove_op("A", "B", {2}),
      add_op("A", "B", {3}), post_op("B", "hi", {4})>>

test_invalid_post_after_removal_and_before_readding ==
    <<create_op("A"), add_op("A", "B", {1}), remove_op("A", "B", {2}),
      post_op("B", "hi", {3}), add_op("A", "B", {4})>>

test_valid_power_increase_administrator ==
    <<create_op("A"), add_op("A", "B", {1}),
      increase_pl_op("A", PowerLevels.ADMINISTRATOR, "B", {2})>>

test_valid_power_increase_moderator ==
    <<create_op("A"), add_op("A", "B", {1}),
      increase_pl_op("A", PowerLevels.MODERATOR, "B", {2})>>

test_valid_power_increase_user ==
    <<create_op("A"), add_op("A", "B", {1}),
      increase_pl_op("A", PowerLevels.USER, "B", {2})>>

test_valid_power_increase_default ==
    <<create_op("A"), add_op("A", "B", {1})>>

test_valid_power_increase_3_people ==
    <<create_op("A"), add_op("A", "B", {1}), add_op("A", "C", {2}),
      increase_pl_op("A", PowerLevels.MODERATOR, "B", {3}),
      increase_pl_op("B", PowerLevels.MODERATOR, "C", {4})>>

test_invalid_power_increase_higher_pl ==
    <<create_op("A"), add_op("A", "B", {1}), add_op("A", "C", {2}),
      increase_pl_op("A", PowerLevels.MODERATOR, "B", {3}),
      increase_pl_op("B", PowerLevels.ADMINISTRATOR, "C", {4})>>

PowerTests ==
    {test_add_remove, test_concurrent_remove_user, test_concurrent_remove_adder,
     test_valid_post_before_removal, test_invalid_post_after_removal,
     test_valid_post_after_removal_and_readding,
     test_invalid_post_after_removal_and_before_readding,
     test_valid_power_increase_administrator, test_valid_power_increase_moderator,
     test_valid_power_increase_user, test_valid_power_increase_default,
     test_valid_power_increase_3_people, test_invalid_power_increase_higher_pl}

\* test_concurrent_remove_adder with the remove of the adder issued
\* beside the add of the adder: it is concurrent with the adder's add of
\* C and shares no predecessor with it.
concurrent_remove_adder_apart ==
    <<create_op("A"), add_op("A", "B", {1}), add_op("B", "C", {2}),
      remove_op("A", "B", {1})>>

\* The same for test_concurrent_remove_user: the remove of the added key.
concurrent_remove_user_apart ==
    <<create_op("A"), add_op("A", "B", {1}), add_op("A", "C", {2}),
      remove_op("A", "C", {1})>>

\* B adds C, and A then removes B in an op that lists both B's add of C
\* and that add's own predecessor.
remove_adder_after_add ==
    <<create_op("A"), add_op("A", "B", {1}), add_op("B", "C", {2}),
      remove_op("A", "B", {3, 2})>>

PowerInputs ==
    PowerTests \cup {concurrent_remove_adder_apart, concurrent_remove_user_apart}

RECURSIVE transitive_succs(_, _)
transitive_succs(o, hash) ==
    {hash} \cup UNION {transitive_succs(o, succ) : succ \in successors(o, hash)}

RECURSIVE transitive_preds(_, _)
transitive_preds(o, hash) ==
    {hash} \cup UNION {transitive_preds(o, pred) : pred \in o[hash].preds}

\* A remove of the added key or of the adder among the immediate
\* successors of the add's immediate predecessors.
concurrent_removal(o, op) ==
    LET immediate_succ == UNION {successors(o, pred) : pred \in op.preds}
    IN  \E succ \in immediate_succ :
            /\ o[succ].type = "remove"
            /\ o[succ].removed_key \in {op.added_key, op.signed_by}

IsIncreaseOf(op, key) == op.type = "increase_pl" /\ op.increased_key = key

\* The least element of a non-empty set of numbers.
MinOf(S) == CHOOSE x \in S : \A y \in S : x <= y

RECURSIVE search_power_level(_, _, _, _)

\* Every increase_pl taken as valid, whatever its signer's level.
is_valid_pl_increase_always(o, op, new_pl, preds, ord) == TRUE

is_valid_pl_increase(o, op, new_pl, preds, ord) ==
    search_power_level(o, op.signed_by, IterSeq(preds, ord.h), ord) >= new_pl

\* The walk back from currents: the first valid increase_pl of key that is
\* met decides, lowered to the least level of the valid increases of key
\* among the immediate successors of its predecessors (itself included).
search_power_level(o, key, currents, ord) ==
    IF currents = <<>> THEN PowerLevels.USER
    ELSE LET current == Head(currents)
             current_op == o[current]
         IN  IF /\ IsIncreaseOf(current_op, key)
                /\ is_valid_pl_increase(o, current_op, current_op.power_level,
                                        current_op.preds, ord)
             THEN LET power_level == Max2(PowerLevels.USER, current_op.power_level)
                      immediate_succs ==
                          {succ \in UNION {successors(o, pred) : pred \in current_op.preds} :
                              /\ IsIncreaseOf(o[succ], key)
                              /\ is_valid_pl_increase(o, o[succ], o[succ].power_level,
                                                      o[succ].preds, ord)}
                  IN  MinOf({power_level} \cup {o[succ].power_level : succ \in immediate_succs})
             ELSE IF current_op.type = "create" /\ current_op.signed_by = key
             THEN PowerLevels.ADMINISTRATOR
             ELSE search_power_level(o, key,
                                     Tail(currents) \o IterSeq(current_op.preds, ord.h), ord)

\* The walk forward raising power_level at every increase_pl of key,
\* valid or not.
RECURSIVE search_power_level_succ_unchecked(_, _, _, _, _)
search_power_level_succ_unchecked(o, key, currents, power_level, ord) ==
    IF currents = <<>> THEN power_level
    ELSE LET current == Head(currents)
             current_op == o[current]
             updated ==
                 IF IsIncreaseOf(current_op, key)
                 THEN Max2(power_level, current_op.power_level)
                 ELSE power_level
         IN  IF current_op.type = "create" /\ current_op.signed_by = key
             THEN PowerLevels.ADMINISTRATOR
             ELSE search_power_level_succ_unchecked(o, key,
                      Tail(currents) \o IterSeq(successors(o, current), ord.h),
                      updated, ord)

\* The walk forward from nexts.  A valid increase_pl of key raises
\* power_level; the increases of key beside it are validated with the
\* empty preds list the caller passes, and lower power_level; the walk
\* goes on.
RECURSIVE search_power_level_succ(_, _, _, _, _)
search_power_level_succ(o, key, currents, power_level, ord) ==
    IF currents = <<>> THEN power_level
    ELSE LET current == Head(currents)
             current_op == o[current]
             updated ==
                 IF /\ IsIncreaseOf(current_op, key)
                    /\ is_valid_pl_increase(o, current_op, current_op.power_level,
                                            current_op.preds, ord)
                 THEN LET raised == Max2(power_level, current_op.power_level)
                          immediate_succs ==
                              {succ \in UNION {successors(o, pred) : pred \in current_op.preds} :
                                  /\ IsIncreaseOf(o[succ], key)
                                  /\ is_valid_pl_increase(o, o[succ], o[succ].power_level,
                                                          {}, ord)}
                      IN  MinOf({raised} \cup {o[succ].power_level : succ \in immediate_succs})
                 ELSE power_level
         IN  IF current_op.type = "create" /\ current_op.signed_by = key
             THEN PowerLevels.ADMINISTRATOR
             ELSE search_power_level_succ(o, key,
                      Tail(currents) \o IterSeq(successors(o, current), ord.h),
                      updated, ord)

\* The checks of interpret_ops (project.py) before the membership loop.
structure_ok_power_levels(o) ==
    /\ \A h \in DOMAIN o :
          o[h].type \in {"create", "add", "remove", "post", "increase_pl"}
    /\ \A h \in DOMAIN o : o[h].type # "create" => o[h].preds # {}
    /\ \A h \in DOMAIN o : o[h].type # "create" => o[h].preds \subseteq DOMAIN o
    /\ Cardinality({h \in DOMAIN o : o[h].type = "create"}) = 1

\* The members loop without the search for a later remove.
members_loop_all_added(o) ==
    {affected_key(o[h]) : h \in
        {g \in DOMAIN o :
            /\ o[g].type \in {"create", "add"}
            /\ ~(o[g].type = "add" /\ concurrent_removal(o, o[g]))}}

\* The members loop: the keys of the create/add ops without a remove of
\* the key among their transitive successors and, for an add, without a
\* concurrent_removal.
members_loop(o) ==
    {affected_key(o[h]) : h \in
        {g \in DOMAIN o :
            /\ o[g].type \in {"create", "add"}
            /\ ~\E succ \in transitive_succs(o, g) :
                   /\ o[succ].type = "remove"
                   /\ o[succ].removed_key = affected_key(o[g])
            /\ ~(o[g].type = "add" /\ concurrent_removal(o, o[g]))}}

\* The check on removes raising only when the removed key's level is
\* above its signer's.
remove_raises_above_only(o, ord) ==
    \E h \in DOMAIN o :
        /\ o[h].type = "remove"
        /\ LET preds == IterSeq(o[h].preds, ord.h)
               power_level_removed == search_power_level(o, o[h].removed_key, preds, ord)
               power_level_remover == search_power_level(o, o[h].signed_by, preds, ord)
           IN  power_level_removed > power_level_remover

\* Some remove op removes a key whose power level is not below its signer's.
remove_raises(o, ord) ==
    \E h \in DOMAIN o :
        /\ o[h].type = "remove"
        /\ LET preds == IterSeq(o[h].preds, ord.h)
               power_level_removed == search_power_level(o, o[h].removed_key, preds, ord)
               power_level_remover == search_power_level(o, o[h].signed_by, preds, ord)
           IN  ~(power_level_removed < power_level_remover)

\* The messages loop accepting any add of the author after the remove,
\* whether the post follows that add or not.
messages_loop_any_later_add(o) ==
    {o[h].message : h \in
        {g \in DOMAIN o :
            /\ o[g].type = "post"
            /\ LET removals == {r \in transitive_preds(o, g) :
                                   /\ o[r].type = "remove"
                                   /\ o[r].removed_key = o[g].signed_by}
               IN  \A removal_hash \in removals :
                       \E rem_succ \in transitive_succs(o, removal_hash) :
                           /\ o[rem_succ].type = "add"
                           /\ o[rem_succ].added_key = o[g].signed_by}}

\* The messages loop: a post counts unless some remove of its author among
\* its transitive predecessors has no add of the author after it of which
\* the post is a transitive successor.
messages_loop(o) ==
    {o[h].message : h \in
        {g \in DOMAIN o :
            /\ o[g].type = "post"
            /\ LET removals == {r \in transitive_preds(o, g) :
                                   /\ o[r].type = "remove"
                                   /\ o[r].removed_key = o[g].signed_by}
               IN  \A removal_hash \in removals :
                       \E rem_succ \in transitive_succs(o, removal_hash) :
                           /\ o[rem_succ].type = "add"
                           /\ o[rem_succ].added_key = o[g].signed_by
                           /\ g \in transitive_succs(o, rem_succ)}}

PowerFailure(kind) ==
    [raised |-> kind, members |-> {}, messages |-> {}, power_levels |-> {}]

\* interpret_ops of project.py; power_levels is the set of the pairs
\* <<member, level>>.
interpret_ops_power_levels(o, ord) ==
    IF ~structure_ok_power_levels(o) THEN PowerFailure("Exception")
    ELSE IF remove_raises(o, ord) THEN PowerFailure("Exception")
    ELSE LET members == members_loop(o)
             create == CHOOSE h \in DOMAIN o : o[h].type = "create"
         IN  [raised |-> "none",
              members |-> members,
              messages |-> messages_loop(o),
              power_levels |->
                  {<<member, search_power_level_succ(o, member, <<create>>,
                                                     PowerLevels.USER, ord)>> :
                      member \in members}]

----------------------------------------------------------------------------
(* The state machine: the producers put signed ops into the set handed to  *)
(* the interpreter, starting from the empty set or from one of Inputs.     *)
(* free holds the digests the ops still to be produced will hash to.       *)

NoOps == [x \in {} |-> create_op("A")]

\* The op set with op stored under hash h.
Put(o, h, op) == [x \in DOMAIN o \cup {h} |-> IF x = h THEN op ELSE o[x]]

\* A hash binds the signed bytes: an op not yet in the set gets a hash no
\* other op has, and the same bytes would give the hash already present.
Fresh(h, op) ==
    /\ h \in free
    /\ \A g \in DOMAIN ops_by_hash : ops_by_hash[g] # op

Produce(h, op) ==
    /\ Fresh(h, op)
    /\ ops_by_hash' = Put(ops_by_hash, h, op)
    /\ free' = free \ {h}
    /\ codec' = codec

\* The predecessor lists a producer is called with: the heads of what its
\* caller has seen, so no listed predecessor precedes another one.
PredSets ==
    {P \in SUBSET (DOMAIN ops_by_hash) \ {{}} :
        \A x, y \in P : ~precedes(ops_by_hash, x, y)}

OddHashes == {h \in Hashes : h % 2 = 1}

Init ==
    /\ codec = Idle
    /\ \/ /\ ops_by_hash = NoOps
          /\ free = 1..MaxOps
       \/ \E t \in Inputs, F \in SUBSET OddHashes :
             /\ Cardinality(F) = MaxExtra
             /\ \/ ops_by_hash = Hashed(t, Rising(Len(t)))
                \/ ops_by_hash = Hashed(t, Falling(Len(t)))
             /\ free = F

\* The creator is A and its op takes the least hash: the interpreter
\* compares keys for equality only, and never the create op's hash with
\* another op's (its depth 0 decides first; it lies on no cycle).
Create ==
    /\ DOMAIN ops_by_hash = {}
    /\ Produce(1, create_op("A"))

Add ==
    \E h \in free :
        \E k \in Keys, added \in Keys, preds \in PredSets :
            Produce(h, add_op(k, added, preds))

Remove ==
    \E h \in free :
        \E k \in Keys, removed \in Keys, preds \in PredSets :
            Produce(h, remove_op(k, removed, preds))

Post ==
    \E h \in free :
        \E k \in Keys, m \in Messages, preds \in PredSets :
            Produce(h, post_op(k, m, preds))

Next == Create \/ Add \/ Remove \/ Post

Spec == Init /\ [][Next]_vars

\* The same machine, under which the runs over every iteration order are
\* checked apart from the single-order properties.
SpecOrders == Init /\ [][Next]_vars

\* The same machine, under which the result for the set is compared with
\* the result for the set without one of its last ops.
SpecFrame == Init /\ [][Next]_vars

\* The same machine, under which the returned members and messages are
\* compared with the ops of the set that stand behind them.
SpecMembers == Init /\ [][Next]_vars

\* The machine started from the inputs and from a set with a merge of
\* branches of different lengths, under which the depths are checked.
InitDepth ==
    /\ codec = Idle
    /\ \/ /\ ops_by_hash = NoOps
          /\ free = 1..MaxOps
       \/ \E t \in Inputs \cup {merge_of_unequal_depths}, F \in SUBSET OddHashes :
             /\ Cardinality(F) = MaxExtra
             /\ \/ ops_by_hash = Hashed(t, Rising(Len(t)))
                \/ ops_by_hash = Hashed(t, Falling(Len(t)))
             /\ free = F

SpecDepth == InitDepth /\ [][Next]_vars

\* The same machine, under which the measures that bound the recursions
\* are checked.
SpecEnds == Init /\ [][Next]_vars

\* The same machine, under which concurrent adds and removes of a key are
\* checked.
SpecConcurrent == Init /\ [][Next]_vars

\* The same machine, under which the effect of the dropped ops is checked.
SpecDrops == Init /\ [][Next]_vars

\* The same machine, under which the validity memo is compared with the
\* rule it implements.
SpecValidity == Init /\ [][Next]_vars

\* The same machine, under which the authority graph and its cycles are
\* checked.
SpecGraph == Init /\ [][Next]_vars

\* create_op has no precondition and draws a fresh nonce: a further create
\* op, by any key, differs from every op of the set.
CreateAgain ==
    /\ DOMAIN ops_by_hash # {}
    /\ \E k \in Keys, h \in free :
          /\ ops_by_hash' = Put(ops_by_hash, h, create_op(k))
          /\ free' = free \ {h}
          /\ codec' = codec

\* add_op, remove_op and post_op take the preds list as given: here empty.
Unlinked ==
    \E k \in Keys, other \in Keys, m \in Messages, h \in free :
        \/ Produce(h, add_op(k, other, {}))
        \/ Produce(h, remove_op(k, other, {}))
        \/ Produce(h, post_op(k, m, {}))

\* interpret_ops is handed the ops its caller holds of the ops produced:
\* one op is missing, as the create op is in test_no_create.
Withhold ==
    /\ free = {}
    /\ \E h \in DOMAIN ops_by_hash :
          /\ ops_by_hash' = [x \in DOMAIN ops_by_hash \ {h} |-> ops_by_hash[x]]
          /\ free' = free
          /\ codec' = codec

NextAnySet == Create \/ Add \/ Remove \/ Post \/ CreateAgain \/ Unlinked \/ Withhold

\* The machine whose op sets need not pass the checks of interpret_ops.
SpecAnySet == Init /\ [][NextAnySet]_vars

\* A caller holds a signing key and a message dictionary.
InitCodec ==
    /\ ops_by_hash = NoOps
    /\ free = {}
    /\ \E signing_key \in Keys, message \in Bodies :
          codec = [Idle EXCEPT !.at = "message", !.signing_key = signing_key,
                               !.message = message]

SignMsg ==
    /\ codec.at = "message"
    /\ codec' = [codec EXCEPT !.at = "signed",
                              !.signed_msg = sign_msg(codec.signing_key, codec.message)]
    /\ UNCHANGED <<ops_by_hash, free>>

VerifyMsg ==
    /\ codec.at = "signed"
    /\ codec' = [codec EXCEPT !.at = "verified",
                              !.verified = verify_msg(codec.signed_msg)]
    /\ UNCHANGED <<ops_by_hash, free>>

NextCodec == SignMsg \/ VerifyMsg

\* One round trip of a message through sign_msg and verify_msg.
SpecCodec == InitCodec /\ [][NextCodec]_vars

\* The bytes handed to verify_msg need not come from sign_msg: the first
\* 32 bytes of a signed message are replaced by another public key.
ForgePrefix ==
    /\ codec.at = "signed"
    /\ \E k \in Keys :
          /\ codec.signed_msg[1] # verify_key_encode(k)
          /\ codec' = [codec EXCEPT !.signed_msg =
                          <<verify_key_encode(k)>> \o Tail(codec.signed_msg)]
    /\ UNCHANGED <<ops_by_hash, free>>

NextEnvelope == SignMsg \/ ForgePrefix \/ VerifyMsg

\* The round trip, with envelopes whose prefix key was exchanged.
SpecEnvelope == InitCodec /\ [][NextEnvelope]_vars

IncreasePl ==
    \E h \in free :
        \E k \in Keys, power_level \in Levels, increased \in Keys, preds \in PredSets :
            Produce(h, increase_pl_op(k, power_level, increased, preds))

\* The sets handed to interpret_ops of project.py: produced from the empty
\* set, or one of its tests' inputs.
InitPower ==
    /\ codec = Idle
    /\ \/ /\ ops_by_hash = NoOps
          /\ free = 1..MaxOps
       \/ \E t \in PowerInputs, F \in SUBSET OddHashes :
             /\ Cardinality(F) = MaxExtra
             /\ \/ ops_by_hash = Hashed(t, Rising(Len(t)))
                \/ ops_by_hash = Hashed(t, Falling(Len(t)))
             /\ free = F

\* The same, and a set in which a remove lists, beside the add it follows,
\* a predecessor of that add.
InitListed ==
    /\ codec = Idle
    /\ \/ /\ ops_by_hash = NoOps
          /\ free = 1..MaxOps
       \/ \E t \in PowerInputs \cup {remove_adder_after_add}, F \in SUBSET OddHashes :
             /\ Cardinality(F) = MaxExtra
             /\ \/ ops_by_hash = Hashed(t, Rising(Len(t)))
                \/ ops_by_hash = Hashed(t, Falling(Len(t)))
             /\ free = F

NextPower == Create \/ Add \/ Remove \/ Post \/ IncreasePl

\* The producers of project.py and its interpret_ops.
SpecPower == InitPower /\ [][NextPower]_vars

\* The same machine, under which the effect of single increase_pl ops is
\* checked.
SpecGrants == InitPower /\ [][NextPower]_vars

\* The same machine as SpecPower, under which the check on removes is
\* checked.
SpecRemovals == InitPower /\ [][NextPower]_vars

\* The machine of create, add, remove and post ops started from InitListed.
SpecListed == InitListed /\ [][Next]_vars

\* The same inputs with create, add, remove and post ops produced on top:
\* the machine under which members and messages are checked.
SpecMembership == InitPower /\ [][Next]_vars

\* What interpret_ops of project.py returns for the current set.
PowerResult == interpret_ops_power_levels(ops_by_hash, DefaultOrder)

PowerResultOf(o) == interpret_ops_power_levels(o, DefaultOrder)

PowerReturned(members, messages, power_levels) ==
    PowerResult = [raised |-> "none", members |-> members, messages |-> messages,
                   power_levels |-> power_levels]

\* What the interpreter returns for the current set.
Result == interpret_ops(ops_by_hash, DefaultOrder)

TypeOK == Result.raised \in {"none", "KeyError", "Exception"}

----------------------------------------------------------------------------
(* The interpreter's intermediate values for an op set o, under the        *)
(* default iteration order.                                                *)

ResultOf(o) == interpret_ops(o, DefaultOrder)

SeniorityOf(o) == compute_seniority(o, DefaultOrder)

\* The hashes of the dropped ops (the second components of drop).
DropOf(o) == {t[2] : t \in drop_entries(o, SeniorityOf(o))}

PrunedOf(o) == pruned_graph(o, drop_entries(o, SeniorityOf(o)))

\* The validity memo with every node evaluated: valid[node] is what
\* compute_validity leaves for node.
ValidOf(o) ==
    LET mnodes == member_nodes(authority_graph(o))
        onodes == {OpNode(h) : h \in DOMAIN o}
        mrank == [n \in mnodes |-> KeyIndex[n[2]]]
        orank == [n \in onodes |-> n[2]]
    IN  validity_nodes(o, PrunedOf(o), IterSeq(mnodes, mrank) \o IterSeq(onodes, orank),
                       EmptyValid, DefaultOrder).valid

\* The same for the current set.
Ops == DOMAIN ops_by_hash
Accepted == structure_ok(ops_by_hash)
Returns == Result.raised = "none"
Seniority == SeniorityOf(ops_by_hash)
Drop == DropOf(ops_by_hash)
AuthGraph == authority_graph(ops_by_hash)
Cycles == cycles_of(ops_by_hash)
Before(h1, h2) == precedes(ops_by_hash, h1, h2)
Creator == ops_by_hash[CHOOSE h \in Ops : ops_by_hash[h].type = "create"].signed_by

\* The current set is the input t, under either hashing.
IsInput(t) ==
    \/ ops_by_hash = Hashed(t, Rising(Len(t)))
    \/ ops_by_hash = Hashed(t, Falling(Len(t)))

Returned(members, valid_messages) ==
    Result = [raised |-> "none", members |-> members, valid_messages |-> valid_messages]

----------------------------------------------------------------------------
(* Notions of the specification, stated without the interpreter's          *)
(* algorithms.                                                             *)

\* A(k): the create/add ops whose subject is k.
Adders(o, k) ==
    {h \in DOMAIN o : o[h].type \in {"create", "add"} /\ affected_key(o[h]) = k}

\* Some create/add of the signer of u causally precedes u.
Authored(o, u) == \E a \in Adders(o, o[u].signed_by) : precedes(o, a, u)

\* The length of the longest path from the root to h.
RECURSIVE LongestPath(_, _)
LongestPath(o, h) ==
    IF o[h].preds = {} THEN 0
    ELSE LET ds == {LongestPath(o, p) : p \in o[h].preds}
         IN  1 + CHOOSE d \in ds : \A e \in ds : e <= d

\* The simple paths of G over op nodes, each starting at its least hash.
ExtendPaths(G, P) ==
    UNION {{Append(p, e[2]) : e \in
               {f \in G : /\ f[1] = p[Len(p)]
                          /\ ~IsMember(f[2])
                          /\ f[2][2] > p[1][2]
                          /\ ~InSeq(f[2], p)}} : p \in P}

RECURSIVE PathsFrom(_, _, _)
PathsFrom(G, P, n) ==
    IF n = 0 \/ P = {} THEN P ELSE P \cup PathsFrom(G, ExtendPaths(G, P), n - 1)

\* The vertex sets of the simple cycles of G.
SimpleCycles(o, G) ==
    {Range(p) : p \in
        {q \in PathsFrom(G, {<<OpNode(h)>> : h \in DOMAIN o}, Cardinality(DOMAIN o)) :
            <<q[Len(q)], q[1]>> \in G}}

\* The op of cycle c whose (seniority of its signer, hash) is greatest.
GreatestOn(o, c) ==
    LET entry(n) == <<SeniorityOf(o)[o[n[2]].signed_by], n[2]>>
    IN  (CHOOSE n \in c : \A m \in c : m = n \/ EntryLess(entry(m), entry(n)))[2]

\* The op set without its head u.
Without(o, u) == [h \in DOMAIN o \ {u} |-> o[h]]

IsRemoveOf(h, k) ==
    ops_by_hash[h].type = "remove" /\ ops_by_hash[h].removed_key = k

----------------------------------------------------------------------------
(* C1.  For every accepted input the returned members and valid_messages   *)
(* (and whether the call returns at all) are the same under every          *)
(* iteration order of the ops, member sentinels, cycles and edges.         *)

C1_OrderIndependent ==
    \A ord \in Orders : interpret_ops(ops_by_hash, ord) = Result

\* An input with an authority cycle and two heads, on which the call returns.
C1_Witness ==
    /\ Returns
    /\ Cycles # {}
    /\ Cardinality(heads(ops_by_hash)) >= 2
    /\ Result.members # {}

(* C2.  Whenever every signer on a cycle has a seniority, the drop set is  *)
(* exactly: for each simple cycle of the authority graph, the op whose     *)
(* (seniority of its signer, hash) is greatest.  In the cycle of figure 6  *)
(* that is C's remove, and members = {A}.                                  *)

C2_DropIsGreatestOnEachCycle ==
    (Accepted /\ ~drop_raises(ops_by_hash, Seniority)) =>
        /\ Drop = {GreatestOn(ops_by_hash, c) : c \in SimpleCycles(ops_by_hash, AuthGraph)}
        /\ IsInput(test_paper_figure_6) =>
              /\ Drop # {}
              /\ \A h \in Drop : ops_by_hash[h].signed_by = "C" /\ IsRemoveOf(h, "A")
              /\ Returned({"A"}, {})

\* A cycle through three ops signed by three keys is resolved.
C2_Witness ==
    /\ Returns
    /\ \E c \in Cycles :
          /\ Cardinality(c) >= 3
          /\ Cardinality({ops_by_hash[n[2]].signed_by : n \in c}) >= 3

(* C3.  An op v signed by B is invalid whenever a valid remove r of B is   *)
(* before v or concurrent with v and every create/add of B that precedes   *)
(* v also precedes r.  So a post by B after or concurrent with B's         *)
(* removal is not a valid message, and a key B adds concurrently with B's  *)
(* removal does not become a member.                                       *)

C3_Challenged(valid, v, r) ==
    /\ ops_by_hash[v].type # "create"
    /\ r # v
    /\ IsRemoveOf(r, ops_by_hash[v].signed_by)
    /\ valid[OpNode(r)]
    /\ ~Before(v, r)
    /\ \A a \in Adders(ops_by_hash, ops_by_hash[v].signed_by) :
          Before(a, v) => Before(a, r)

C3_RemovedSignerIsInvalid ==
    Returns =>
        LET valid == ValidOf(ops_by_hash)
        IN  /\ \A v \in Ops, r \in Ops :
                  C3_Challenged(valid, v, r) => ~valid[OpNode(v)]
            /\ IsInput(test_remove_then_post) => Returned({"A"}, {})
            /\ IsInput(test_concurrent_remove_post) => Returned({"A"}, {})
            /\ IsInput(test_paper_figure_3) => Returned({"A"}, {})

\* A post concurrent with the valid removal of its signer.
C3_Witness ==
    /\ Returns
    /\ \E v \in Ops, r \in Ops :
          /\ C3_Challenged(ValidOf(ops_by_hash), v, r)
          /\ ops_by_hash[v].type = "post"
          /\ concurrent(ops_by_hash, v, r)

(* C4.  No authority edge goes from a remove of B to an op signed by B     *)
(* that causally precedes the remove, and the remove does not change the   *)
(* validity of such an op that lies on no authority cycle.  So a post by   *)
(* B made after a valid add of B and before every remove of B is a valid   *)
(* message, and a key that B added before B's removal stays a member       *)
(* (figure 4), although B is no longer a member.                           *)

\* The ops signed by the key that the last remove r removes, causally
\* before r, whose validity is not the same with and without r (where the
\* interpreter returns on both inputs).
C4_ChangedBy(r) ==
    LET earlier == {v \in Ops : IsRemoveOf(r, ops_by_hash[v].signed_by) /\ Before(v, r)}
        without == Without(ops_by_hash, r)
    IN  IF earlier = {} \/ r \notin heads(ops_by_hash) THEN {}
        ELSE IF ~Returns \/ ResultOf(without).raised # "none" THEN {}
        ELSE LET valid == ValidOf(ops_by_hash)
                 before == ValidOf(without)
             IN  {v \in earlier : valid[OpNode(v)] # before[OpNode(v)]}

C5_RootAuthority ==
    LET result == Result
        drop == Drop
        valid == ValidOf(ops_by_hash)
    IN  (Accepted /\ result.raised = "none") =>
            \/ Creator \in result.members
            \/ \E r \in Ops :
                  /\ IsRemoveOf(r, Creator)
                  /\ r \notin drop
                  /\ valid[OpNode(r)]

\* The creator has been removed.
C5_Witness == Accepted /\ Returns /\ Creator \notin Result.members

(* C6.  An op is valid only if a create/add of its signer causally         *)
(* precedes it; an op whose signer was not (yet) added is invalid, its     *)
(* post is no valid message and its add or remove changes nobody's         *)
(* membership: the members are those of the input without it.              *)

C6_UnauthoredOpHasNoEffect ==
    (Accepted /\ Returns) =>
        /\ \A v \in Ops :
              (ops_by_hash[v].type # "create" /\ ValidOf(ops_by_hash)[OpNode(v)])
                  => Authored(ops_by_hash, v)
        /\ \A u \in heads(ops_by_hash) :
              ( /\ ops_by_hash[u].type \in {"add", "remove"}
                /\ ~Authored(ops_by_hash, u)
                /\ ResultOf(Without(ops_by_hash, u)).raised = "none" )
              => ResultOf(Without(ops_by_hash, u)).members = Result.members

(* C7.  For every input that passes the structural checks interpret_ops    *)
(* returns a result and never raises.                                      *)

C7_NeverRaises == Accepted => Returns

(* C8.  After K signs a remove of K, the ops K signs that causally follow  *)
(* it, with no re-add of K in between, are invalid.                        *)

C8_SelfRemovalEndsAuthority ==
    Returns =>
        \A s \in Ops, v \in Ops :
            ( /\ IsRemoveOf(s, ops_by_hash[s].signed_by)
              /\ ops_by_hash[v].signed_by = ops_by_hash[s].signed_by
              /\ Before(s, v)
              /\ ~\E a \in Adders(ops_by_hash, ops_by_hash[s].signed_by) :
                     Before(s, a) /\ Before(a, v) )
            => ~ValidOf(ops_by_hash)[OpNode(v)]

(* C9.  When K1 and K2, first added at different depths, concurrently      *)
(* remove each other, the remove signed by the key of greater depth is     *)
(* dropped; when these are the only removes, every op is authored and      *)
(* every add of the junior key precedes its removal, the senior key is a   *)
(* member and the junior key is not.  Exchanging the two signing           *)
(* identities exchanges the winner.                                        *)

C9_MutualRemoval(seniority, r1, r2) ==
    /\ IsRemoveOf(r1, ops_by_hash[r2].signed_by)
    /\ IsRemoveOf(r2, ops_by_hash[r1].signed_by)
    /\ ops_by_hash[r1].signed_by # ops_by_hash[r2].signed_by
    /\ concurrent(ops_by_hash, r1, r2)
    /\ seniority[ops_by_hash[r1].signed_by][1] < seniority[ops_by_hash[r2].signed_by][1]

C9_OtherwiseAuthorised(r1, r2) ==
    /\ {h \in Ops : ops_by_hash[h].type = "remove"} = {r1, r2}
    /\ \A u \in Ops : ops_by_hash[u].type # "create" => Authored(ops_by_hash, u)
    /\ \A a \in Adders(ops_by_hash, ops_by_hash[r2].signed_by) : Before(a, r1)

C9_SeniorWinsMutualRemoval ==
    LET result == Result
        seniority == Seniority
        drop == Drop
    IN  result.raised = "none" =>
        /\ \A r1 \in Ops, r2 \in Ops :
              C9_MutualRemoval(seniority, r1, r2) =>
                  /\ r2 \in drop
                  /\ C9_OtherwiseAuthorised(r1, r2) =>
                        /\ ops_by_hash[r1].signed_by \in result.members
                        /\ ops_by_hash[r2].signed_by \notin result.members
        /\ IsInput(test_mutual_removal) => Returned({"A"}, {})
        /\ IsInput(swap_keys(test_mutual_removal, "A", "B")) => Returned({"B"}, {})
        /\ IsInput(mutual_removal_juniors) => Returned({"A", "B"}, {})
        /\ IsInput(swap_keys(mutual_removal_juniors, "B", "C")) => Returned({"A", "C"}, {})

\* Two keys, neither the creator, added at different depths remove each other.
C9_Witness ==
    /\ Returns
    /\ \E r1 \in Ops, r2 \in Ops :
          /\ C9_MutualRemoval(Seniority, r1, r2)
          /\ C9_OtherwiseAuthorised(r1, r2)
          /\ Seniority[ops_by_hash[r1].signed_by][1] >= 1

(* C10.  seniority(k) is the lexicographic minimum of (depth(h), h) over   *)
(* all create/add ops h whose subject is k, valid or not; the creator has  *)
(* depth 0; a re-add at a greater depth does not change it, and in the     *)
(* remove / re-add / mutual-removal test the creator wins.                 *)

C10_SeniorityIsFirstAdd ==
    LET seniority == Seniority
    IN  Accepted =>
        /\ DOMAIN seniority = {k \in AllKeys : Adders(ops_by_hash, k) # {}}
        /\ \A k \in DOMAIN seniority :
              /\ \E h \in Adders(ops_by_hash, k) :
                    seniority[k] = <<LongestPath(ops_by_hash, h), h>>
              /\ \A h \in Adders(ops_by_hash, k) :
                    \/ seniority[k] = <<LongestPath(ops_by_hash, h), h>>
                    \/ PairLess(seniority[k], <<LongestPath(ops_by_hash, h), h>>)
        /\ seniority[Creator][1] = 0
        /\ IsInput(test_mutual_removal_2) => Returned({"A"}, {})

\* A key with adds at two depths, the deeper one valid, the shallower one
\* giving its seniority.
C10_Witness ==
    /\ Returns
    /\ \E k \in DOMAIN Seniority : \E h1 \in Adders(ops_by_hash, k), h2 \in Adders(ops_by_hash, k) :
          /\ LongestPath(ops_by_hash, h1) < LongestPath(ops_by_hash, h2)
          /\ ValidOf(ops_by_hash)[OpNode(h2)]
          /\ Seniority[k] = <<LongestPath(ops_by_hash, h1), h1>>

(* C11.  A post p by B that causally follows a valid remove r of B is      *)
(* valid if and only if some valid create/add of B precedes p and is       *)
(* followed by no valid remove of B that is before or concurrent with p    *)
(* (so it does not precede r).  A post made after the remove and a valid   *)
(* re-add is a valid message; a post made after the remove and before the  *)
(* re-add is not, although B is a member again.                            *)

\* The pairs <<r, p>>: p a post, r a valid remove of p's signer before p.
C11_PostsAfterRemove(valid) ==
    {rp \in Ops \X Ops :
        /\ ops_by_hash[rp[2]].type = "post"
        /\ IsRemoveOf(rp[1], ops_by_hash[rp[2]].signed_by)
        /\ valid[OpNode(rp[1])]
        /\ Before(rp[1], rp[2])}

\* A valid create/add of p's signer before p that no valid remove of the
\* signer, before or concurrent with p, follows.
C11_Reauthorised(valid, p) ==
    \E a \in Adders(ops_by_hash, ops_by_hash[p].signed_by) :
        /\ valid[OpNode(a)]
        /\ Before(a, p)
        /\ \A x \in Ops :
              ( /\ IsRemoveOf(x, ops_by_hash[p].signed_by)
                /\ valid[OpNode(x)]
                /\ ~Before(p, x) )
              => ~Before(a, x)

\* A valid add of p's signer lies causally between r and p.
C11_AddBetween(valid, r, p) ==
    \E a \in Adders(ops_by_hash, ops_by_hash[p].signed_by) :
        valid[OpNode(a)] /\ Before(r, a) /\ Before(a, p)

C11_PostAfterRemoveNeedsReadd ==
    LET result == Result
        valid == ValidOf(ops_by_hash)
    IN  result.raised = "none" =>
        /\ \A rp \in C11_PostsAfterRemove(valid) :
              valid[OpNode(rp[2])] <=> C11_Reauthorised(valid, rp[2])
        /\ IsInput(test_remove_add_then_post) => Returned({"A", "B"}, {"hi"})
        /\ IsInput(test_remove_post_then_add) => Returned({"A", "B"}, {})

\* C11 as first stated: the post is valid exactly when a valid add of B
\* lies causally between the remove and the post.
C11_PostValidIffAddBetween ==
    LET result == Result
        valid == ValidOf(ops_by_hash)
    IN  result.raised = "none" =>
        \A rp \in C11_PostsAfterRemove(valid) :
            valid[OpNode(rp[2])] <=> C11_AddBetween(valid, rp[1], rp[2])

\* A post after a valid remove and a valid re-add of its signer is a
\* valid message.
C11_Witness ==
    LET valid == ValidOf(ops_by_hash)
    IN  /\ Returns
        /\ \E rp \in C11_PostsAfterRemove(valid) :
              /\ C11_AddBetween(valid, rp[1], rp[2])
              /\ ops_by_hash[rp[2]].message \in Result.valid_messages

(* C12.  Every key in members is the subject of a create or add op of the  *)
(* input; a key that appears only as the removed key of a remove or only   *)
(* as a signer is not a member.                                            *)

C12_MembersWereAdded ==
    LET result == Result
    IN  result.raised = "none" =>
            \A k \in result.members : Adders(ops_by_hash, k) # {}

\* A valid remove names a key that was never added, and another key that
\* was never added signs an op.
C12_Witness ==
    /\ Returns
    /\ \E r \in Ops :
          /\ ops_by_hash[r].type = "remove"
          /\ Adders(ops_by_hash, ops_by_hash[r].removed_key) = {}
          /\ ValidOf(ops_by_hash)[OpNode(r)]
    /\ \E u \in Ops : Adders(ops_by_hash, ops_by_hash[u].signed_by) = {}

(* C13.  If a valid remove r of B causally follows every create/add of B,  *)
(* B is not a member; and when r is a last op and no op signed by B is     *)
(* concurrent with it, the other keys are members exactly as without r.    *)
(* For create_A, add_A->B, add_A->C (concurrent), remove_A->B after both:  *)
(* members = {A, C} and no valid message.                                  *)

\* r is a valid remove that follows every create/add of the key it removes.
C13_RemoveAfterAdds(valid, r) ==
    /\ ops_by_hash[r].type = "remove"
    /\ valid[OpNode(r)]
    /\ \A a \in Adders(ops_by_hash, ops_by_hash[r].removed_key) : Before(a, r)

\* Every op signed by the key r removes is causally before r.
C13_NothingConcurrent(r) ==
    \A u \in Ops : ops_by_hash[u].signed_by = ops_by_hash[r].removed_key => Before(u, r)

RECURSIVE Authorised(_, _)
Authorised(o, h) ==
    \/ o[h].type = "create"
    \/ \E a \in Adders(o, o[h].signed_by) : precedes(o, a, h) /\ Authorised(o, a)

C14_NoRemoves == \A h \in Ops : ops_by_hash[h].type # "remove"

C14_AddsPassAuthorityOn ==
    /\ (Accepted /\ C14_NoRemoves) =>
          LET result == Result
          IN  /\ result.raised = "none"
              /\ result.members =
                    {affected_key(ops_by_hash[a]) :
                        a \in {h \in Ops : /\ ops_by_hash[h].type \in {"create", "add"}
                                           /\ Authorised(ops_by_hash, h)}}
    /\ IsInput(test_paper_figure_2) => Returned({"A", "B", "C", "D"}, {})

\* Without removes, a key added by a key other than the creator is a member.
C14_Witness ==
    /\ Accepted
    /\ C14_NoRemoves
    /\ \E a \in Ops :
          /\ ops_by_hash[a].type = "add"
          /\ ops_by_hash[a].signed_by # Creator
          /\ ops_by_hash[a].added_key \in Result.members \ {Creator, ops_by_hash[a].signed_by}

(* C15.  The authority graph has a cycle exactly when concurrent removes    *)
(* mutually challenge each other: every cycle contains two distinct        *)
(* remove ops that are concurrent with each other, and an input in which   *)
(* no two removes are concurrent has an acyclic authority graph and an     *)
(* empty drop set.                                                         *)

\* The cycle holds two distinct removes concurrent with each other.
C15_ConcurrentRemovesOn(c) ==
    \E n1, n2 \in c :
        /\ n1 # n2
        /\ ops_by_hash[n1[2]].type = "remove"
        /\ ops_by_hash[n2[2]].type = "remove"
        /\ concurrent(ops_by_hash, n1[2], n2[2])

C15_NoConcurrentRemoves ==
    \A r1, r2 \in {h \in Ops : ops_by_hash[h].type = "remove"} :
        r1 # r2 => ~concurrent(ops_by_hash, r1, r2)

C15_CyclesAreConcurrentRemoves ==
    Accepted =>
        LET cycles == Cycles
        IN  /\ \A c \in cycles : C15_ConcurrentRemovesOn(c)
            /\ C15_NoConcurrentRemoves => (cycles = {} /\ Drop = {})

(* C16.  The depth computation enforces the sanity predicate: when some    *)
(* non-create op of an accepted input has no create/add of its signing     *)
(* key causally preceding it, check_graph reports the violation as a       *)
(* failure of the call instead of silently accepting the input.            *)

C16_UnauthoredOps ==
    {u \in Ops : ops_by_hash[u].type # "create" /\ ~Authored(ops_by_hash, u)}

C16_UnauthoredOpIsReported ==
    (Accepted /\ C16_UnauthoredOps # {}) => Result.raised = "Exception"

(* C17.  interpret_ops fails with an error and returns no members and no  *)
(* valid_messages when the input holds no create op (the empty input       *)
(* included) or more than one create op.                                   *)

C17_Creates == {h \in Ops : ops_by_hash[h].type = "create"}

C17_ExactlyOneCreate ==
    Cardinality(C17_Creates) # 1 => Result = Failure("Exception")

\* Two create ops by different keys, as in test_create_twice.
C17_Witness ==
    /\ \E c1, c2 \in C17_Creates : ops_by_hash[c1].signed_by # ops_by_hash[c2].signed_by
    /\ Result.raised = "Exception"

(* C18.  interpret_ops fails with an error, before any membership          *)
(* computation and without partial results, when a non-create op has an    *)
(* empty preds list or lists a predecessor hash that is not the hash of    *)
(* an op of the input.                                                     *)

C18_NoPreds == {h \in Ops : ops_by_hash[h].type # "create" /\ ops_by_hash[h].preds = {}}

C18_Dangling ==
    {h \in Ops : ops_by_hash[h].type # "create" /\ ~(ops_by_hash[h].preds \subseteq Ops)}

C18_PredsMustResolve ==
    (C18_NoPreds # {} \/ C18_Dangling # {}) => Result = Failure("Exception")

\* One create op, every op with predecessors, and one of them missing.
C18_Witness ==
    /\ Cardinality({h \in Ops : ops_by_hash[h].type = "create"}) = 1
    /\ C18_NoPreds = {}
    /\ C18_Dangling # {}
    /\ Result.raised = "Exception"

(* C19.  When the call returns, members is exactly the set of keys pk      *)
(* whose sentinel ("member", pk) is valid, and valid_messages is exactly   *)
(* the set of the messages of the valid post ops: every returned string    *)
(* is the message of some post op of the input, and a message is absent    *)
(* only if every post carrying it is invalid.                              *)

C19_ResultIsTheValidNodes ==
    LET result == Result
    IN  result.raised = "none" =>
            LET valid == ValidOf(ops_by_hash)
                posts == {h \in Ops : ops_by_hash[h].type = "post"}
            IN  /\ result.members =
                      {pk \in AllKeys : /\ MemberNode(pk) \in DOMAIN valid
                                        /\ valid[MemberNode(pk)]}
                /\ result.valid_messages =
                      {ops_by_hash[h].message : h \in {p \in posts : valid[OpNode(p)]}}
                /\ \A m \in result.valid_messages : \E p \in posts : ops_by_hash[p].message = m
                /\ \A m \in Messages \ result.valid_messages :
                      \A p \in posts : ops_by_hash[p].message = m => ~valid[OpNode(p)]

\* The call returns a member and no message although a post op is there,
\* and some key with a sentinel is not a member.
C19_Witness ==
    LET valid == ValidOf(ops_by_hash)
    IN  /\ Returns
        /\ Result.members # {}
        /\ Result.valid_messages = {}
        /\ \E p \in Ops : ops_by_hash[p].type = "post" /\ ~valid[OpNode(p)]
        /\ \E pk \in AllKeys : MemberNode(pk) \in DOMAIN valid /\ ~valid[MemberNode(pk)]

(* C20.  For every signing key sk and every message whose values are      *)
(* JSON values (no tuple) and which has no field named signed_by,          *)
(* verify_msg(sign_msg(sk, message)) returns the fields of the message     *)
(* unchanged together with signed_by equal to the hex encoding of sk's     *)
(* public key.  For every message, signed_by is that key, the other        *)
(* fields come back with a tuple turned into a list, and a signed_by       *)
(* field of the message itself is replaced.                                *)

C20_JsonValues(message) ==
    /\ "signed_by" \notin DOMAIN message
    /\ \A name \in DOMAIN message : message[name].py # "tuple"

C20_RoundTrip ==
    codec.at = "verified" =>
        LET message == codec.message
            out == codec.verified
        IN  /\ out.raised = "none"
            /\ DOMAIN out.value = DOMAIN message \cup {"signed_by"}
            /\ out.value["signed_by"] = PyStr(codec.signing_key)
            /\ \A name \in DOMAIN message \ {"signed_by"} :
                  out.value[name] = IF message[name].py = "tuple"
                                    THEN PyList(message[name].items)
                                    ELSE message[name]
            /\ C20_JsonValues(message) =>
                  \A name \in DOMAIN message : out.value[name] = message[name]

(* C20 as stated: for every signing key and every body the fields of the  *)
(* body come back unchanged, with signed_by the signer's key.              *)
C20_EveryBodyUnchanged ==
    codec.at = "verified" =>
        /\ codec.verified.raised = "none"
        /\ \A name \in DOMAIN codec.message :
              codec.verified.value[name] = codec.message[name]
        /\ codec.verified.value["signed_by"] = PyStr(codec.signing_key)

\* The body of an add op, signed by A, has come back from verify_msg.
C20_Witness ==
    /\ codec.at = "verified"
    /\ codec.signing_key = "A"
    /\ codec.message = [name \in {"type", "added_key", "preds"} |->
                           IF name = "type" THEN PyStr("add")
                           ELSE IF name = "added_key" THEN PyStr("B")
                           ELSE PyList(<<"B">>)]
    /\ codec.verified.raised = "none"
    /\ codec.verified.value["signed_by"] = PyStr("A")

\* The asserted outcomes of the tests of project.py.
PowerTestsPass ==
    /\ IsInput(test_add_remove) => PowerResult.members = {"A", "C"}
    /\ IsInput(test_concurrent_remove_user) => PowerResult.members = {"A", "B"}
    /\ IsInput(test_concurrent_remove_adder) => PowerResult.members = {"A"}
    /\ IsInput(test_valid_post_before_removal) =>
          PowerResult.members = {"A"} /\ PowerResult.messages = {"hi"}
    /\ IsInput(test_invalid_post_after_removal) =>
          PowerResult.members = {"A"} /\ PowerResult.messages = {}
    /\ IsInput(test_valid_post_after_removal_and_readding) =>
          PowerResult.members = {"A", "B"} /\ PowerResult.messages = {"hi"}
    /\ IsInput(test_invalid_post_after_removal_and_before_readding) =>
          PowerResult.members = {"A", "B"} /\ PowerResult.messages = {}
    /\ IsInput(test_valid_power_increase_administrator) =>
          PowerResult.power_levels = {<<"A", 100>>, <<"B", 100>>}
    /\ IsInput(test_valid_power_increase_moderator) =>
          PowerResult.power_levels = {<<"A", 100>>, <<"B", 50>>}
    /\ IsInput(test_valid_power_increase_user) =>
          PowerResult.power_levels = {<<"A", 100>>, <<"B", 0>>}
    /\ IsInput(test_valid_power_increase_default) =>
          PowerResult.power_levels = {<<"A", 100>>, <<"B", 0>>}
    /\ IsInput(test_valid_power_increase_3_people) =>
          PowerResult.power_levels = {<<"A", 100>>, <<"B", 50>>, <<"C", 50>>}
    /\ IsInput(test_invalid_power_increase_higher_pl) =>
          PowerResult.power_levels = {<<"A", 100>>, <<"B", 50>>, <<"C", 0>>}

(* C21.  Power-level interpreter: when interpret_ops returns, a post by K  *)
(* counts (its message is returned) if and only if every remove of K in    *)
(* the post's causal past is followed by an add of K that is itself in     *)
(* the post's causal past.  A post after removal is excluded; a post       *)
(* after removal and re-add is included; a post after removal but before   *)
(* the re-add is excluded although K is a member again.                    *)

\* Every remove of the author before post p has an add of the author
\* between it and p.
C21_Readded(p) ==
    \A r \in Ops :
        (/\ ops_by_hash[r].type = "remove"
         /\ ops_by_hash[r].removed_key = ops_by_hash[p].signed_by
         /\ Before(r, p)) =>
            \E a \in Ops :
                /\ ops_by_hash[a].type = "add"
                /\ ops_by_hash[a].added_key = ops_by_hash[p].signed_by
                /\ Before(r, a)
                /\ Before(a, p)

C22_ConcurrentlyRemoved(p) ==
    \E r \in Ops :
        /\ ops_by_hash[r].type = "remove"
        /\ ops_by_hash[r].removed_key = ops_by_hash[p].signed_by
        /\ concurrent(ops_by_hash, r, p)

C22_ConcurrentPostIsDiscarded ==
    LET result == PowerResult
    IN  result.raised = "none" =>
            \A m \in Messages :
                (\A p \in Ops : (ops_by_hash[p].type = "post" /\ ops_by_hash[p].message = m)
                                    => C22_ConcurrentlyRemoved(p))
                    => m \notin result.messages

(* C23.  Power-level interpreter: an add of key K signed by S confers no  *)
(* membership on K whenever some remove of K, or some remove of S, is      *)
(* concurrent with that add, whatever the shape of the DAG between them:   *)
(* when every create/add of K is such an add, K is not a member.           *)

C23_ConcurrentlyRemoved(a) ==
    /\ ops_by_hash[a].type = "add"
    /\ \E r \in Ops :
          /\ ops_by_hash[r].type = "remove"
          /\ ops_by_hash[r].removed_key \in {ops_by_hash[a].added_key, ops_by_hash[a].signed_by}
          /\ concurrent(ops_by_hash, r, a)

C23_ConcurrentRemoveVoidsAdd ==
    LET result == PowerResult
    IN  /\ result.raised = "none" =>
              \A k \in AllKeys :
                  (\A a \in Adders(ops_by_hash, k) : C23_ConcurrentlyRemoved(a))
                      => k \notin result.members
        /\ IsInput(test_concurrent_remove_user) => result.members = {"A", "B"}
        /\ IsInput(test_concurrent_remove_adder) => result.members = {"A"}

(* C24.  Power-level interpreter: when interpret_ops returns, every        *)
(* member is a key added by a create or add op that has no remove of the   *)
(* key among its transitive successors; a key whose every create/add has   *)
(* a remove of the key among its transitive successors is not a member;    *)
(* every member has a create/add naming it.  For create_A, add_A->B,       *)
(* add_A->C, remove_A->B after both: members = {A, C}.                     *)

\* No remove of the key a names causally follows a.
C24_NotRemovedAgain(a) ==
    ~\E r \in Ops :
        /\ ops_by_hash[r].type = "remove"
        /\ ops_by_hash[r].removed_key = affected_key(ops_by_hash[a])
        /\ Before(a, r)

C25_PostsNeedAnAddedAuthor ==
    LET result == PowerResult
    IN  result.raised = "none" =>
            \A m \in result.messages :
                \E p \in Ops :
                    /\ ops_by_hash[p].type = "post"
                    /\ ops_by_hash[p].message = m
                    /\ Authored(ops_by_hash, p)

(* C26.  Power-level interpreter: in the returned power_levels the group  *)
(* creator has ADMINISTRATOR (100); any other member targeted by no valid  *)
(* increase_pl op has USER (0); any other member targeted by exactly one   *)
(* valid increase_pl op has the level that op requests, also when the      *)
(* signer of that op got its own level from an earlier increase_pl.  An    *)
(* increase_pl is valid when its signer's power level, searched from the   *)
(* op's preds, is at least the requested level.                            *)

\* The increase_pl ops that target key k.
C26_Increases(k) == {g \in Ops : IsIncreaseOf(ops_by_hash[g], k)}

C26_Valid(g) ==
    is_valid_pl_increase(ops_by_hash, ops_by_hash[g], ops_by_hash[g].power_level,
                         ops_by_hash[g].preds, DefaultOrder)

\* g is the only increase_pl that targets k, it follows the only
\* increase_pl that targets its signer s, which the creator signed, and no
\* increase_pl targets the creator: the levels of the creator and of s in
\* the past of g are 100 and the level s was granted.
C26_Chain(k, g) ==
    LET s == ops_by_hash[g].signed_by
    IN  /\ C26_Increases(k) = {g}
        /\ C26_Increases(Creator) = {}
        /\ k # Creator
        /\ \/ s = Creator
           \/ \E f \in Ops :
                 /\ C26_Increases(s) = {f}
                 /\ ops_by_hash[f].signed_by = Creator
                 /\ Before(f, g)
                 /\ ops_by_hash[f].power_level >= ops_by_hash[g].power_level

C26_PowerLevelsAreTheGrantedOnes ==
    LET result == PowerResult
    IN  /\ result.raised = "none" =>
              /\ \A k \in result.members :
                    \E l \in Levels : /\ <<k, l>> \in result.power_levels
                                      /\ \A e \in result.power_levels : e[1] = k => e[2] = l
              /\ \A e \in result.power_levels :
                    LET k == e[1]
                        valid == {g \in C26_Increases(k) : C26_Valid(g)}
                    IN  /\ k \in result.members
                        /\ k = Creator => e[2] = PowerLevels.ADMINISTRATOR
                        /\ (k # Creator /\ valid = {}) => e[2] = PowerLevels.USER
                        /\ \A g \in valid :
                              (k # Creator /\ valid = {g}) => e[2] = ops_by_hash[g].power_level
                        /\ \A g \in C26_Increases(k) :
                              C26_Chain(k, g) => e[2] = ops_by_hash[g].power_level
        /\ IsInput(test_valid_power_increase_moderator) =>
              result.power_levels = {<<"A", 100>>, <<"B", 50>>}
        /\ IsInput(test_valid_power_increase_3_people) =>
              result.power_levels = {<<"A", 100>>, <<"B", 50>>, <<"C", 50>>}

\* The interpreter returns; a member has the level its single valid
\* increase_pl requests, whose signer got its level from an increase_pl.
C26_Witness ==
    /\ PowerResult.raised = "none"
    /\ \E k \in PowerResult.members, g \in Ops :
          /\ C26_Chain(k, g)
          /\ C26_Valid(g)
          /\ ops_by_hash[g].signed_by # Creator
          /\ ops_by_hash[g].power_level > PowerLevels.USER
          /\ <<k, ops_by_hash[g].power_level>> \in PowerResult.power_levels

(* C27.  Power-level interpreter: an increase_pl op that requests a level  *)
(* above its signer's power level at that point of the DAG has no effect:  *)
(* the interpreter returns what it returns without that op, and a member   *)
(* other than the creator that is reported above USER has the level some   *)
(* increase_pl requested whose signer held at least that level: the        *)
(* creator, or a key an earlier increase_pl had granted as much.           *)

\* The increase_pl ops whose signer's level, searched from their preds, is
\* below the level they request.
C27_Invalid ==
    {g \in Ops : /\ ops_by_hash[g].type = "increase_pl"
                 /\ search_power_level(ops_by_hash, ops_by_hash[g].signed_by,
                                       IterSeq(ops_by_hash[g].preds, DefaultOrder.h),
                                       DefaultOrder) < ops_by_hash[g].power_level}

\* The increase_pl g was signed by a key that held level l or more before
\* it: by the creator, or after an increase_pl that grants its signer l or
\* more.
C27_GranterHeld(g, l) ==
    LET s == ops_by_hash[g].signed_by
    IN  \/ s = Creator
        \/ \E f \in C26_Increases(s) :
              /\ Before(f, g)
              /\ ops_by_hash[f].power_level >= l

C27_InvalidIncreaseHasNoEffect ==
    LET result == PowerResult
    IN  /\ \A g \in C27_Invalid :
              successors(ops_by_hash, g) = {} =>
                  PowerResultOf(Without(ops_by_hash, g)) = result
        /\ result.raised = "none" =>
              \A e \in result.power_levels :
                  (e[1] # Creator /\ e[2] > PowerLevels.USER) =>
                      \E g \in C26_Increases(e[1]) :
                          /\ g \notin C27_Invalid
                          /\ ops_by_hash[g].power_level = e[2]
                          /\ C27_GranterHeld(g, e[2])
        /\ IsInput(test_invalid_power_increase_higher_pl) =>
              result.power_levels = {<<"A", 100>>, <<"B", 50>>, <<"C", 0>>}

\* The interpreter returns, and the last op produced is an increase_pl for
\* a member by a signer whose level is below the requested one.
C27_Witness ==
    /\ PowerResult.raised = "none"
    /\ \E g \in C27_Invalid :
          /\ successors(ops_by_hash, g) = {}
          /\ ops_by_hash[g].increased_key \in PowerResult.members
          /\ ops_by_hash[g].increased_key # Creator
          /\ <<ops_by_hash[g].increased_key, PowerLevels.USER>> \in PowerResult.power_levels

(* C28.  compute_validity yields the validity map of the specification on  *)
(* the pruned graph G': the create op is valid; any other node, with P the  *)
(* valid nodes that have an edge into it in G', is valid iff some p in P   *)
(* is a create/add that no remove q in P follows (p precedes q).  A node    *)
(* without a valid incoming create/add, every dropped op included, is      *)
(* invalid.                                                                *)

\* The valid nodes with an edge into node in G.
C28_P(G, valid, node) == {e[1] : e \in {f \in G : f[2] = node /\ valid[f[1]]}}

\* The rule of the specification for node, given the validity of the
\* nodes before it.
C28_Rule(G, valid, node) ==
    \/ ~IsMember(node) /\ ops_by_hash[node[2]].type = "create"
    \/ \E p \in C28_P(G, valid, node) :
          /\ ops_by_hash[p[2]].type \in {"create", "add"}
          /\ ~\E q \in C28_P(G, valid, node) :
                 /\ ops_by_hash[q[2]].type = "remove"
                 /\ Before(p[2], q[2])

C28_AllNodes == {OpNode(h) : h \in Ops} \cup member_nodes(AuthGraph)

C28_ValidityIsTheRule ==
    Returns =>
        LET valid == ValidOf(ops_by_hash)
            G == PrunedOf(ops_by_hash)
        IN  /\ DOMAIN valid = C28_AllNodes
            /\ \A node \in C28_AllNodes : valid[node] <=> C28_Rule(G, valid, node)
            /\ \A h \in Drop : ~valid[OpNode(h)]
            /\ \A node \in C28_AllNodes :
                  (~\E e \in G : /\ e[2] = node
                                 /\ valid[e[1]]
                                 /\ ops_by_hash[e[1][2]].type \in {"create", "add"})
                  => (valid[node] <=> node[1] = "op" /\ ops_by_hash[node[2]].type = "create")

\* The interpreter returns; an op is dropped, and some node is invalid
\* because a valid remove follows each of its valid incoming adds.
C28_Witness ==
    /\ Returns
    /\ Drop # {}
    /\ LET valid == ValidOf(ops_by_hash)
           G == PrunedOf(ops_by_hash)
       IN  \E node \in C28_AllNodes :
              /\ ~valid[node]
              /\ \E p \in C28_P(G, valid, node) : ops_by_hash[p[2]].type = "add"
              /\ \E q \in C28_P(G, valid, node) : ops_by_hash[q[2]].type = "remove"

(* C29.  For every accepted input in which every signer on a cycle has a   *)
(* seniority, the pruned graph G' is acyclic: every simple cycle of the    *)
(* authority graph, self-loops and cycles over the same vertices           *)
(* included, has one of its ops in the drop set, and compute_validity      *)
(* never re-enters a node it is still evaluating.                          *)

C29_Prunable == Accepted /\ ~drop_raises(ops_by_hash, Seniority)

C29_PrunedGraphIsAcyclic ==
    C29_Prunable =>
        LET drop == Drop
            G == PrunedOf(ops_by_hash)
        IN  /\ \A c \in SimpleCycles(ops_by_hash, AuthGraph) : \E n \in c : n[2] \in drop
            /\ SimpleCycles(ops_by_hash, G) = {}
            /\ \A e \in G : e[1] # e[2]
            /\ ~validity_map(ops_by_hash, DefaultOrder).overflow
            /\ Result.raised # "RecursionError"

\* The interpreter returns for a set whose authority graph has a cycle
\* through two ops or more.
C29_Witness ==
    /\ C29_Prunable
    /\ \E c \in SimpleCycles(ops_by_hash, AuthGraph) : Cardinality(c) >= 2
    /\ Returns

(* C30.  authority_graph returns exactly these edges: for each create,     *)
(* add or remove op u with subject key k(u) (the signer of a create, the   *)
(* added key of an add, the removed key of a remove) the edge from u to    *)
(* the member sentinel of k(u); for each op v signed by k(u) the edge      *)
(* from u to v iff u precedes v when u is a create/add, and iff v does     *)
(* not precede u when u is a remove; and no other edge: post ops and       *)
(* member sentinels have no outgoing edges.                                *)

\* k(u).
C30_Subject(u) ==
    CASE ops_by_hash[u].type = "create" -> ops_by_hash[u].signed_by
      [] ops_by_hash[u].type = "add" -> ops_by_hash[u].added_key
      [] ops_by_hash[u].type = "remove" -> ops_by_hash[u].removed_key

\* The edge x -> y is one the specification lists.
C30_Listed(x, y) ==
    /\ x[1] = "op"
    /\ ops_by_hash[x[2]].type \in {"create", "add", "remove"}
    /\ \/ y = MemberNode(C30_Subject(x[2]))
       \/ /\ y[1] = "op"
          /\ ops_by_hash[y[2]].signed_by = C30_Subject(x[2])
          /\ IF ops_by_hash[x[2]].type = "remove"
             THEN ~Before(y[2], x[2])
             ELSE Before(x[2], y[2])

C30_Nodes == {OpNode(h) : h \in Ops} \cup {MemberNode(k) : k \in AllKeys}

C31_Authorities(A, valid, drop, node) ==
    {e[1] : e \in {f \in A : /\ f[2] = node
                             /\ f[1][2] \notin drop
                             /\ valid[f[1]]}}

C31_DropsAreGlobal ==
    Returns =>
        LET drop == Drop
            valid == ValidOf(ops_by_hash)
            G == PrunedOf(ops_by_hash)
            A == AuthGraph
            nodes == {OpNode(h) : h \in Ops} \cup member_nodes(A)
            kept == {n \in nodes : IsMember(n) \/ n[2] \notin drop}
        IN  /\ drop \subseteq Ops
            /\ \A c \in Cycles : \A n \in c : ~IsMember(n)
            /\ G \subseteq A
            /\ \A e \in A : e \in G <=> (e[1] \in kept /\ e[2] \in kept)
            /\ \A node \in kept :
                  LET P == C31_Authorities(A, valid, drop, node)
                  IN  valid[node] <=>
                          \/ ~IsMember(node) /\ ops_by_hash[node[2]].type = "create"
                          \/ \E p \in P :
                                /\ ops_by_hash[p[2]].type \in {"create", "add"}
                                /\ ~\E q \in P :
                                       /\ ops_by_hash[q[2]].type = "remove"
                                       /\ Before(p[2], q[2])
            /\ Result.members = {k \in AllKeys : /\ MemberNode(k) \in DOMAIN valid
                                                 /\ valid[MemberNode(k)]}

\* The interpreter returns; a dropped remove has an authority edge to
\* another op, and the key it removes is a member.
C31_Witness ==
    /\ Returns
    /\ \E d \in Drop :
          /\ ops_by_hash[d].type = "remove"
          /\ ops_by_hash[d].removed_key \in Result.members
          /\ \E e \in AuthGraph : e[1] = OpNode(d) /\ e[2][1] = "op" /\ e[2] # e[1]

(* C32.  interpret_ops ends on every accepted input, with no cycle budget: *)
(* find_cycles ends although the authority graph may have cycles, its      *)
(* path growing with distinct nodes only; precedes and check_graph end     *)
(* because preds is acyclic, every op getting a depth; compute_validity    *)
(* ends on the pruned graph.  The call ends in its return, or in the       *)
(* KeyError of a signer without seniority.                                 *)

\* The sequence s holds no node twice.
C32_Distinct(s) == \A i \in DOMAIN s, j \in DOMAIN s : s[i] = s[j] => i = j

C32_InterpretOpsTerminates ==
    Accepted =>
        LET G == AuthGraph
            walk == graph_walk(ops_by_hash, DefaultOrder)
            nodes == {OpNode(h) : h \in Ops} \cup member_nodes(G)
        IN  /\ \A h \in Ops : ~Before(h, h)
            /\ ~walk.failed
            /\ DOMAIN walk.depth = Ops
            /\ \A h \in Ops : \A g \in ops_by_hash[h].preds : walk.depth[g] < walk.depth[h]
            /\ \A m \in member_nodes(G) :
                  \A call \in find_cycles_calls(G, m, <<>>) :
                      /\ C32_Distinct(call[2])
                      /\ Range(call[2]) \subseteq nodes
                      /\ Len(call[2]) <= Cardinality(nodes)
            /\ Result.raised \in {"none", "KeyError"}
            /\ ~drop_raises(ops_by_hash, Seniority) => Returns

\* The interpreter returns for a set in which find_cycles closes a cycle
\* after a path of three nodes or more.
C32_Witness ==
    /\ Accepted
    /\ Returns
    /\ \E m \in member_nodes(AuthGraph) :
          \E call \in find_cycles_calls(AuthGraph, m, <<>>) :
              InSeq(call[1], call[2]) /\ Len(call[2]) >= 3

(* C33.  When a valid add of key K and a valid remove of K are            *)
(* concurrent, the remove does not override that add: K is a member        *)
(* unless some other valid remove of K follows the add.  A remove          *)
(* overrides only the adds that precede it: K is a member iff some valid   *)
(* create/add of K is followed by no valid remove of K.                    *)

\* The valid removes of key k.
C33_Removes(valid, k) ==
    {r \in Ops : /\ ops_by_hash[r].type = "remove"
                 /\ ops_by_hash[r].removed_key = k
                 /\ valid[OpNode(r)]}

\* The valid create/add a of k stands beside a valid remove of k, and no
\* valid remove of k follows it.
C33_AddBesideRemove(valid, k, a) ==
    /\ valid[OpNode(a)]
    /\ \E r \in C33_Removes(valid, k) : concurrent(ops_by_hash, a, r)
    /\ \A r \in C33_Removes(valid, k) : ~Before(a, r)

C33_ConcurrentAddWins ==
    LET result == Result
    IN  result.raised = "none" =>
            LET valid == ValidOf(ops_by_hash)
            IN  /\ \A k \in AllKeys : \A a \in Adders(ops_by_hash, k) :
                      C33_AddBesideRemove(valid, k, a) => k \in result.members
                /\ \A k \in AllKeys :
                      k \in result.members <=>
                          \E a \in Adders(ops_by_hash, k) :
                              /\ valid[OpNode(a)]
                              /\ \A r \in C33_Removes(valid, k) : ~Before(a, r)

\* The interpreter returns; a valid add of a key stands beside a valid
\* remove of it and is the only add of the key; the key is a member.
C33_Witness ==
    /\ Returns
    /\ \E k \in AllKeys : \E a \in Adders(ops_by_hash, k) :
          /\ C33_AddBesideRemove(ValidOf(ops_by_hash), k, a)
          /\ Adders(ops_by_hash, k) = {a}
          /\ k \in Result.members

(* C34.  If S is accepted and S' is S plus one new op n whose causal past  *)
(* holds every op of S (all heads of S are preds of n), then the validity  *)
(* of every op of S is the same in S' as in S, no message leaves           *)
(* valid_messages, which can gain the message of n only, and the only key  *)
(* whose membership can differ between S and S' is the subject key of n.   *)

\* The ops n of the current set S' that follow every other op, S' without
\* n being accepted and interpreted.
C34_LastOps ==
    {n \in Ops :
        /\ heads(ops_by_hash) = {n}
        /\ ops_by_hash[n].type # "create"
        /\ ops_by_hash[n].preds = heads(Without(ops_by_hash, n))
        /\ structure_ok(Without(ops_by_hash, n))
        /\ ResultOf(Without(ops_by_hash, n)).raised = "none"}

\* What the claim states of S' = the current set and S = S' without n.
C34_Framed(n) ==
    LET S == Without(ops_by_hash, n)
        before == ResultOf(S)
        after == Result
        k == IF ops_by_hash[n].type = "post" THEN NoKey ELSE affected_key(ops_by_hash[n])
        message == IF ops_by_hash[n].type = "post" THEN {ops_by_hash[n].message} ELSE {}
    IN  /\ after.raised = "none"
        /\ \A v \in DOMAIN S : ValidOf(ops_by_hash)[OpNode(v)] = ValidOf(S)[OpNode(v)]
        /\ before.valid_messages \subseteq after.valid_messages
        /\ after.valid_messages \subseteq before.valid_messages \cup message
        /\ \A key \in AllKeys \ {k} : key \in before.members <=> key \in after.members

C34_LastOpChangesItsSubjectOnly == \A n \in C34_LastOps : C34_Framed(n)

(* C35.  compute_seniority/check_graph gives the create op depth 0 and     *)
(* every other op 1 + the greatest depth of its predecessors, the length   *)
(* of the longest path from the root, and records every add op in the      *)
(* added set; the values are the same in whatever order the heads and the  *)
(* predecessors are visited, and every op of the input gets a depth.       *)

\* The greatest element of a non-empty set of numbers.
C35_Greatest(S) == CHOOSE x \in S : \A y \in S : y <= x

C35_DepthIsLongestPath ==
    Accepted =>
        \A ord \in Orders :
            LET walk == graph_walk(ops_by_hash, ord)
            IN  /\ ~walk.failed
                /\ DOMAIN walk.depth = Ops
                /\ \A h \in Ops :
                      /\ walk.depth[h] = LongestPath(ops_by_hash, h)
                      /\ walk.depth[h] =
                            IF ops_by_hash[h].type = "create" THEN 0
                            ELSE 1 + C35_Greatest({walk.depth[g] : g \in ops_by_hash[h].preds})
                /\ walk.added =
                      {<<affected_key(ops_by_hash[h]), h>> :
                          h \in {g \in Ops : ops_by_hash[g].type \in {"create", "add"}}}

\* An accepted set with a key added twice and an op whose predecessors
\* lie at different depths.
C35_Witness ==
    /\ Accepted
    /\ \E k \in AllKeys : Cardinality(Adders(ops_by_hash, k)) >= 2
    /\ \E h \in Ops : \E g1 \in ops_by_hash[h].preds, g2 \in ops_by_hash[h].preds :
          LongestPath(ops_by_hash, g1) < LongestPath(ops_by_hash, g2)

(* C36.  Power-level interpreter: concurrent_removal reports a removal    *)
(* only for remove ops that are concurrent with the given add: a remove    *)
(* of the adder or of the added key that follows the add does not count,   *)
(* even when it also lists one of the add's direct predecessors among its  *)
(* own preds, so an add made before its signer's removal still confers     *)
(* membership.                                                             *)

\* Some remove of the key a adds, or of the signer of a, is concurrent
\* with a.
C36_RemovedBeside(a) ==
    \E r \in Ops :
        /\ ops_by_hash[r].type = "remove"
        /\ ops_by_hash[r].removed_key \in {ops_by_hash[a].added_key, ops_by_hash[a].signed_by}
        /\ concurrent(ops_by_hash, r, a)

C36_OnlyConcurrentRemovesCount ==
    LET result == PowerResult
    IN  result.raised = "none" =>
            \A a \in Ops :
                ops_by_hash[a].type = "add" =>
                    /\ concurrent_removal(ops_by_hash, ops_by_hash[a]) => C36_RemovedBeside(a)
                    /\ ( /\ ~C36_RemovedBeside(a)
                         /\ ~\E r \in Ops : /\ ops_by_hash[r].type = "remove"
                                            /\ ops_by_hash[r].removed_key = ops_by_hash[a].added_key
                                            /\ Before(a, r) )
                       => ops_by_hash[a].added_key \in result.members

(* C37.  Power-level interpreter: a user can only remove users whose      *)
(* power level is strictly below their own.  If the input holds a remove   *)
(* op whose removed key's level, searched from the remove's preds, is at   *)
(* least its signer's level, interpret_ops raises and returns nothing;     *)
(* this includes every self-removal and every removal between two keys     *)
(* at USER level.                                                          *)

\* The level of key searched back from the preds of op r.
C37_LevelAt(key, r) ==
    search_power_level(ops_by_hash, key,
                       IterSeq(ops_by_hash[r].preds, DefaultOrder.h), DefaultOrder)

\* No increase_pl targets key, which is not the creator: key is at USER
\* level everywhere.
C37_PlainUser(key) == key # Creator /\ C26_Increases(key) = {}

C37_Removes == {r \in Ops : ops_by_hash[r].type = "remove"}

C37_RemoveNeedsHigherLevel ==
    LET result == PowerResult
    IN  structure_ok_power_levels(ops_by_hash) =>
            /\ \A r \in C37_Removes :
                  /\ C37_LevelAt(ops_by_hash[r].removed_key, r)
                        >= C37_LevelAt(ops_by_hash[r].signed_by, r)
                     => result = PowerFailure("Exception")
                  /\ ops_by_hash[r].removed_key = ops_by_hash[r].signed_by
                     => result = PowerFailure("Exception")
                  /\ ( /\ C37_PlainUser(ops_by_hash[r].removed_key)
                       /\ C37_PlainUser(ops_by_hash[r].signed_by) )
                     => result = PowerFailure("Exception")
            /\ result.raised # "none" =>
                  \E r \in C37_Removes :
                      C37_LevelAt(ops_by_hash[r].removed_key, r)
                          >= C37_LevelAt(ops_by_hash[r].signed_by, r)

\* A well-formed set in which a USER-level member removes another key at
\* USER level, and the call raises.
C37_Witness ==
    /\ structure_ok_power_levels(ops_by_hash)
    /\ PowerResult.raised = "Exception"
    /\ \E r \in C37_Removes :
          /\ ops_by_hash[r].removed_key # ops_by_hash[r].signed_by
          /\ C37_PlainUser(ops_by_hash[r].removed_key)
          /\ C37_PlainUser(ops_by_hash[r].signed_by)
          /\ Adders(ops_by_hash, ops_by_hash[r].signed_by) # {}

(* C38.  Envelope codec: the signed_by of every verified op is the hex of  *)
(* the envelope's public-key prefix, the key whose signature was checked,  *)
(* also when the signed body has a signed_by field of its own; an          *)
(* envelope whose prefix is not the key that signed the body is rejected,  *)
(* so no body makes an op count as signed by another key than the one      *)
(* that signed it.                                                         *)

C38_SignerIsTheEnvelopeKey ==
    codec.at = "verified" =>
        LET prefix == codec.signed_msg[1]
            out == codec.verified
        IN  /\ out.raised = "none" <=> prefix = verify_key_encode(codec.signing_key)
            /\ out.raised = "none" =>
                  /\ "signed_by" \in DOMAIN out.value
                  /\ out.value["signed_by"] = PyStr(prefix.hex)
                  /\ out.value["signed_by"] = PyStr(codec.signing_key)
                  /\ codec.signed_msg[2].key = prefix.hex
            /\ out.raised # "none" => out = [raised |-> "BadSignatureError", value |-> EmptyDict]

\* A body that names B in a signed_by field of its own, signed by A, has
\* come back from verify_msg as signed by A.
C38_Witness ==
    /\ codec.at = "verified"
    /\ codec.signing_key = "A"
    /\ "signed_by" \in DOMAIN codec.message
    /\ codec.message["signed_by"] = PyStr("B")
    /\ codec.verified.raised = "none"
    /\ codec.verified.value["signed_by"] = PyStr("A")

====
